---- MODULE Spec2Model ----
(***************************************************************************)
(* mcpgate: the gateway's Manager, Registry, ManagedServer, stdio          *)
(* Transport and Router as one state machine.                              *)
(*                                                                         *)
(* Route, Stop and the accessors are one action each; Manager.Start and    *)
(* Manager.ReconnectServer take one step per Connect attempt.  An          *)
(* operation that returns leaves its record in call until Return clears    *)
(* it.  Strings that the code only compares for equality are TLA+          *)
(* strings; method names, which the code inspects by prefix, are           *)
(* sequences of characters.  A JSON value that is not a string is "#5".    *)
(***************************************************************************)
EXTENDS Integers, Sequences, FiniteSets, TLC

\* ------------------------------------------------------------- bounds
\* ManagedServer objects that exist at the same time.
MaxObjs == 2
\* Readings of the wall clock: time.Now() returns a value in 1..MaxTime.
MaxTime == 1
\* PooledTransports that exist at the same time.
MaxPooled == 5
\* The pool's clock runs from 0 to MaxPoolTime.
MaxPoolTime == 1
\* Health scores are followed while their denominator is at most MaxDen:
\* through seven errors in a row, and a success after them.
MaxDen == 20000000
\* Times GetTransport hands out the same entry again.
MaxRequests == 1

\* ---------------------------------------------------- protocol constants
ParseError == -32700
InvalidRequest == -32600
InvalidParams == -32602
InternalError == -32603
ServerError == -32000
NoError == 0

\* The nil interface value of Request.ID / Response.ID.
NilID == "null"
IDs == {NilID, "i:7"}
\* The scalar values an id can hold: nil, an integer, a float, a string.
ScalarIDs == IDs \cup {"f:1.5", "s:string-id"}

\* ------------------------------------------------------------ strings
HasPrefix(s, p) == Len(s) >= Len(p) /\ SubSeq(s, 1, Len(p)) = p

StrGateway == <<"g","a","t","e","w","a","y","/">>
StrListServers == StrGateway \o <<"l","i","s","t","_","s","e","r","v","e","r","s">>
StrGetServer == StrGateway \o <<"g","e","t","_","s","e","r","v","e","r">>
StrServerStatus == StrGateway \o <<"s","e","r","v","e","r","_","s","t","a","t","u","s">>
StrCapabilities == StrGateway \o <<"c","a","p","a","b","i","l","i","t","i","e","s">>
StrToolsSlash == <<"t","o","o","l","s","/">>
StrResourcesSlash == <<"r","e","s","o","u","r","c","e","s","/">>
StrPromptsSlash == <<"p","r","o","m","p","t","s","/">>
StrToolsCall == StrToolsSlash \o <<"c","a","l","l">>
StrResourcesRead == StrResourcesSlash \o <<"r","e","a","d">>
StrPromptsGet == StrPromptsSlash \o <<"g","e","t">>
StrTools == <<"t","o","o","l","s">>

GatewayMethods == {StrListServers, StrGetServer, StrServerStatus, StrCapabilities}
ForwardMethods == {StrToolsCall, StrResourcesRead, StrPromptsGet, StrTools}
Methods == GatewayMethods \cup ForwardMethods

\* --------------------------------------------------------------- params
\* Request.Params is raw JSON: absent (nil), bytes that do not decode, or an
\* object, written as its set of <<key, value>> members.
Obj(members) == [kind |-> "object", obj |-> members]
PAbsent == [kind |-> "absent", obj |-> {}]
PInvalid == [kind |-> "invalid", obj |-> {}]
PHint == Obj({<<"_server", "a">>, <<"k", "v">>})
ForwardParams == {PAbsent, PInvalid, Obj({}), PHint, Obj({<<"_server", "#5">>})}
GatewayParams ==
    {PAbsent, PInvalid, Obj({}), Obj({<<"name", "a">>}), Obj({<<"name", "#5">>})}

HasKey(o, k) == \E m \in o : m[1] = k
Field(o, k) == (CHOOSE m \in o : m[1] = k)[2]
\* A Go type assertion v.(string) on a decoded JSON value.
IsJSONString(v) == v /= "#5"

\* The requests given to Route: every method with a version that is not
\* "2.0", the gateway's methods with their params, the other methods with
\* and without a routing hint.
Requests ==
    [jsonrpc : {"1.0"}, id : IDs, method : Methods, params : {PAbsent, PHint}]
        \cup [jsonrpc : {"2.0"}, id : ScalarIDs, method : GatewayMethods,
              params : GatewayParams]
        \cup [jsonrpc : {"2.0"}, id : IDs, method : ForwardMethods, params : ForwardParams]
\* A few of them, for the specifications that are about the servers' life
\* cycle.
ProbeRequests ==
    { [jsonrpc |-> "1.0", id |-> "i:7", method |-> StrTools, params |-> PAbsent],
      [jsonrpc |-> "2.0", id |-> "i:7", method |-> StrListServers, params |-> PAbsent],
      [jsonrpc |-> "2.0", id |-> "i:7", method |-> StrToolsCall, params |-> PAbsent] }

\* -------------------------------------------------------- configuration
ServerNames == {"a", "b"}
Def(n, e, t) == [name |-> n, enabled |-> e, transport |-> t]
Configs ==
    { <<>>,
      <<Def("a", TRUE, "stdio")>>,
      <<Def("a", TRUE, "stdio"), Def("b", TRUE, "stdio")>>,
      <<Def("a", FALSE, "stdio"), Def("b", TRUE, "stdio")>>,
      <<Def("a", TRUE, "carrier-pigeon"), Def("b", TRUE, "stdio")>>,
      <<Def("a", TRUE, "stdio"), Def("a", TRUE, "stdio")>> }

CapLists == {<<>>, <<"tools">>, <<"resources", "prompts">>}

ObjIds == 1..MaxObjs
NoObj == 0

\* Goroutines that call the methods of one ManagedServer at the same time.
MaxThreads == 3
\* Transport.Connect calls between two Disconnects.
MaxConnects == 2
\* Answers on their way that no caller waits for.
MaxLate == 1
Threads == 1..MaxThreads
NoThread == 0

\* The goroutines inside one ManagedServer and its Transport.
\*   mutex      the goroutine that holds ManagedServer.mutex, NoThread if none
\*   pc         where each goroutine is: "idle" outside every method, else
\*              the statement it executes next
\*   stdin      the requests written to the subprocess and not yet answered,
\*              each by the goroutine that wrote it and waits for the
\*              answer, NoThread once that goroutine has given up
\*   respChan   the lines the reader has put on respChan and nobody has
\*              taken: whose request each answers, and whether it is a
\*              JSON-RPC error
\*   closed     whether the reader has returned and closed respChan
\*   old        whether the reader of a connection that Disconnect has
\*              closed has seen its read fail and has yet to mark the
\*              Transport disconnected
\*   tconnects, handshakes
\*              the Transport.Connect calls and initialize requests that
\*              ManagedServer.Connect has made since the last Disconnect
\*   returned   whether a Connect has returned since the last Disconnect
\*   healthy    whether, since the last Disconnect, every subprocess
\*              started, stayed up and answered without an error
NoThreads ==
    [mutex |-> NoThread, pc |-> [t \in Threads |-> "idle"], stdin |-> <<>>,
     respChan |-> <<>>, closed |-> FALSE, old |-> FALSE, tconnects |-> 0,
     handshakes |-> 0, returned |-> FALSE, healthy |-> TRUE]

\* ---------------------------------------------------------------- state
VARIABLES
    config,     \* Manager.config.Servers
    registry,   \* Registry.servers: name -> object, NoObj when absent
    mservers,   \* Manager.servers:  name -> object, NoObj when absent
    srv,        \* the ManagedServer objects and their Transports
    mgr,        \* a Start in progress: the Manager lock and its connect loop
    rc,         \* a ReconnectServer in progress
    scan,       \* a ListByCapability in progress
    wait,       \* a Route in progress inside Transport.SendRequest
    pool,       \* a ConnectionPool, its PooledTransports and the time
    thr,        \* goroutines inside the methods of one ManagedServer
    call        \* the last operation: its arguments and what it returned

vars == <<config, registry, mservers, srv, mgr, rc, scan, wait, pool, thr, call>>

\* A slot of srv that holds no object.
FreeServer ==
    [name |-> "", transport |-> "", connected |-> FALSE, initialized |-> FALSE,
     lastUsed |-> 0, caps |-> <<>>, tconn |-> FALSE, alive |-> FALSE]

\* NewManagedServer: a fresh object around a Transport that is not connected;
\* lastUsed is the zero time.
NewManagedServer(cfg) ==
    [name |-> cfg.name, transport |-> cfg.transport, connected |-> FALSE,
     initialized |-> FALSE, lastUsed |-> 0, caps |-> <<>>, tconn |-> FALSE,
     alive |-> FALSE]

\* Factory.Create fails for every transport type but these four.
TransportTypes == {"stdio", "http", "websocket", "unix"}
FactoryCreateOK(transportType) == transportType \in TransportTypes

\* ------------------------------------------------------------ envelopes
NoResult == [kind |-> "none", items |-> {}]
UpstreamResult == [kind |-> "upstream", items |-> {}]

\* Raw bytes received from a ManagedServer: json is whether they are a
\* JSON object, decodes whether they decode to a Response, with these
\* members.
Envelope(id, code, result) ==
    [json |-> TRUE, decodes |-> TRUE, id |-> id, error |-> code, result |-> result]
Undecodable ==
    [json |-> FALSE, decodes |-> FALSE, id |-> NilID, error |-> NoError,
     result |-> NoResult]
\* A JSON object whose "error" member is a string: it is no Response.
StringError ==
    [json |-> TRUE, decodes |-> FALSE, id |-> NilID, error |-> NoError,
     result |-> NoResult]

Response(id, code, result) ==
    [jsonrpc |-> "2.0", id |-> id, error |-> code, result |-> result]

\* What the upstream does with one request written to it.
\*   reply    a well-formed result envelope echoing the request id
\*   rpcerr   a well-formed error envelope echoing the request id
\*   strerr   a JSON object whose "error" member is a string
\*   garbage  a line that is not JSON
\*   silent   nothing before the caller's deadline
UpstreamOutcomes == {"reply", "rpcerr", "strerr", "garbage", "silent"}
MethodNotFound == -32601

\* ------------------------------------------------------------ transport
\* StdioTransport.SendRequest: fails when not connected; writes the
\* request; returns the next line the reader delivers, or the context's
\* error.  A dead subprocess delivers nothing.
TransportSendRequest(s, request, up) ==
    IF ~s.tconn THEN [err |-> TRUE, data |-> Undecodable]
    ELSE IF ~s.alive \/ up = "silent" THEN [err |-> TRUE, data |-> Undecodable]
    ELSE IF up = "reply"
        THEN [err |-> FALSE, data |-> Envelope(request.id, NoError, UpstreamResult)]
    ELSE IF up = "rpcerr"
        THEN [err |-> FALSE, data |-> Envelope(request.id, MethodNotFound, NoResult)]
    ELSE IF up = "strerr" THEN [err |-> FALSE, data |-> StringError]
    ELSE [err |-> FALSE, data |-> Undecodable]

\* Transport.Connect, the same in its four kinds: no-op when connected,
\* else it starts the subprocess or opens the connection, and the reader;
\* spawns is whether that can be done.
TransportConnect(s, spawns) ==
    IF s.tconn THEN [err |-> FALSE, srv |-> s]
    ELSE IF ~spawns THEN [err |-> TRUE, srv |-> s]
    ELSE [err |-> FALSE, srv |-> [s EXCEPT !.tconn = TRUE, !.alive = TRUE]]

\* Transport.Disconnect.  The stdio, unix and websocket Transports do
\* nothing when not connected, else they stop the reader and kill the
\* subprocess or close the connection; the HTTP Transport closes its idle
\* connections and clears its flag whatever the flag was.
HTTPTransportDisconnect(s) == [s EXCEPT !.tconn = FALSE, !.alive = FALSE]
TransportDisconnect(s) ==
    IF s.transport = "http" THEN HTTPTransportDisconnect(s)
    ELSE IF ~s.tconn THEN s
    ELSE [s EXCEPT !.tconn = FALSE, !.alive = FALSE]

\* readResponses when its read fails: it marks the Transport disconnected
\* and returns.
ReadError_Ignored(s) == s
ReadError(s) == [s EXCEPT !.tconn = FALSE]

\* sync.Mutex.Lock returns only when no goroutine holds the mutex.
TryLock_Always(mutex) == TRUE
TryLock(mutex) == mutex = NoThread

\* ------------------------------------------------------- managed server
\* The envelope ManagedServer.SendRequest builds itself: no "id" member.
LocalErrorEnvelope == Envelope(NilID, InternalError, NoResult)

\* ManagedServer.SendRequest as it would be if it handed the Transport's
\* error on to its caller.
ManagedSendRequest_RawError(s, t, request, up) ==
    LET s1 == [s EXCEPT !.lastUsed = t] IN
    IF ~s.connected \/ ~s.initialized
    THEN [srv |-> s1, data |-> LocalErrorEnvelope, err |-> FALSE,
          tcalls |-> 0, terr |-> FALSE, tdata |-> Undecodable]
    ELSE LET r == TransportSendRequest(s1, request, up) IN
         [srv |-> s1, data |-> r.data, err |-> r.err,
          tcalls |-> 1, terr |-> r.err, tdata |-> r.data]

\* ManagedServer.SendRequest.  tcalls counts the Transport.SendRequest calls,
\* terr is whether that call failed and tdata the bytes it returned.
ManagedSendRequest(s, t, request, up) ==
    LET s1 == [s EXCEPT !.lastUsed = t] IN
    IF ~s.connected \/ ~s.initialized
    THEN [srv |-> s1, data |-> LocalErrorEnvelope, err |-> FALSE,
          tcalls |-> 0, terr |-> FALSE, tdata |-> Undecodable]
    ELSE LET r == TransportSendRequest(s1, request, up) IN
         IF r.err
         THEN [srv |-> s1, data |-> LocalErrorEnvelope, err |-> FALSE,
               tcalls |-> 1, terr |-> TRUE, tdata |-> r.data]
         ELSE [srv |-> s1, data |-> r.data, err |-> FALSE,
               tcalls |-> 1, terr |-> FALSE, tdata |-> r.data]

IsConnected(s) == s.connected
IsInitialized(s) == s.initialized
GetLastUsed(s) == s.lastUsed
HasCapability(s, capability) ==
    \E i \in 1..Len(s.caps) : s.caps[i] = capability

\* One connect attempt's upstream behaviour: whether a subprocess that has to
\* be started does start, and what the upstream does with the initialize
\* request.
ConnectOutcomes ==
    {[spawns |-> FALSE, up |-> "silent"]}
        \cup {[spawns |-> TRUE, up |-> u] : u \in UpstreamOutcomes}
InitializeRequest == [id |-> "i:1"]

\* What the Transport gave for a handshake that was never sent.
NoHandshake == [err |-> TRUE, data |-> Undecodable]

\* ManagedServer.initialize; resp is what Transport.SendRequest returned.
\* The response is decoded into a map, and only an "error" member that is
\* itself an object makes the handshake fail.
Initialize(s, up) ==
    LET r == TransportSendRequest(s, InitializeRequest, up) IN
    IF r.err THEN [err |-> TRUE, srv |-> s, resp |-> r]
    ELSE IF ~r.data.json THEN [err |-> TRUE, srv |-> s, resp |-> r]
    ELSE IF r.data.decodes /\ r.data.error /= NoError
        THEN [err |-> TRUE, srv |-> s, resp |-> r]
    ELSE [err |-> FALSE, srv |-> [s EXCEPT !.initialized = TRUE], resp |-> r]

\* ManagedServer.Connect as it would be without its look at connected.
Connect_Always(s, t, out) ==
    LET c == TransportConnect(s, out.spawns) IN
    IF c.err
    THEN [err |-> TRUE, srv |-> s, tcalls |-> 1, sent |-> FALSE,
          resp |-> NoHandshake]
    ELSE LET s1 == [c.srv EXCEPT !.connected = TRUE, !.lastUsed = t]
             i == Initialize(s1, out.up)
         IN  IF i.err
             THEN [err |-> TRUE, srv |-> [i.srv EXCEPT !.connected = FALSE],
                   tcalls |-> 1, sent |-> TRUE, resp |-> i.resp]
             ELSE [err |-> FALSE, srv |-> i.srv, tcalls |-> 1, sent |-> TRUE,
                   resp |-> i.resp]

\* ManagedServer.Connect.  tcalls counts the Transport.Connect calls, sent is
\* whether the handshake was sent and resp what came back for it.
Connect(s, t, out) ==
    IF s.connected
    THEN [err |-> FALSE, srv |-> s, tcalls |-> 0, sent |-> FALSE, resp |-> NoHandshake]
    ELSE LET c == TransportConnect(s, out.spawns) IN
         IF c.err
         THEN [err |-> TRUE, srv |-> s, tcalls |-> 1, sent |-> FALSE,
               resp |-> NoHandshake]
         ELSE LET s1 == [c.srv EXCEPT !.connected = TRUE, !.lastUsed = t]
                  i == Initialize(s1, out.up)
              IN  IF i.err
                  THEN [err |-> TRUE, srv |-> [i.srv EXCEPT !.connected = FALSE],
                        tcalls |-> 1, sent |-> TRUE, resp |-> i.resp]
                  ELSE [err |-> FALSE, srv |-> i.srv, tcalls |-> 1, sent |-> TRUE,
                        resp |-> i.resp]

\* Disconnect as it would be if it left the server as it is.
Disconnect_Nothing(s) == s

\* ManagedServer.Disconnect
Disconnect(s) ==
    IF ~s.connected THEN s
    ELSE TransportDisconnect([s EXCEPT !.connected = FALSE])

\* ------------------------------------------------------------- registry
Range(m) == {m[n] : n \in DOMAIN m} \ {NoObj}
EmptyMap == [n \in ServerNames |-> NoObj]

\* Register's check as it would be if it never found the name.
RegisterFails_Never(reg, name) == FALSE

\* Whether Registry.Register / Registry.Unregister return an error.
RegisterFails(reg, name) == reg[name] /= NoObj
UnregisterFails(reg, name) == reg[name] = NoObj

\* Registry.Register: fails, changing nothing, when the name is taken.
Register(reg, o, name) ==
    IF RegisterFails(reg, name) THEN reg ELSE [reg EXCEPT ![name] = o]

\* Registry.Unregister: fails, changing nothing, when the name is absent.
Unregister(reg, name) ==
    IF UnregisterFails(reg, name) THEN reg ELSE [reg EXCEPT ![name] = NoObj]

\* Registry.Get / Manager.GetServer: NoObj stands for the not-found error.
GetServer(name) ==
    IF name \in ServerNames THEN registry[name] ELSE NoObj

\* Registry.List / Manager.ListServers: the registered servers; the order
\* of the returned slice is the map's iteration order, which is arbitrary.
ListServers == Range(registry)

\* ListByCapability as it would be without the filter.
ListServersByCapability_All(capability) == Range(registry)

\* Registry.ListByCapability / Manager.ListServersByCapability
ListServersByCapability(capability) ==
    {o \in Range(registry) : HasCapability(srv[o], capability)}

\* -------------------------------------------------------------- manager
MaxRetries == 3
\* How connectWithRetry ended for each server in Start's second loop.
NoneTried == [o \in ObjIds |-> "no"]
\* log is what the attempts of the connectWithRetry run in progress did.
Idle == [lock |-> "free", todo |-> {}, cur |-> NoObj, attempt |-> 0,
         tried |-> NoneTried, log |-> <<>>]
NoReconnect == [obj |-> NoObj, attempt |-> 0, log |-> <<>>]

\* connectWithRetry's wait as it would be if it were the same every time.
Backoff_Constant(attempt) == 1

\* connectWithRetry's wait after a failed attempt, in seconds.
Backoff(attempt) == attempt

\* Objects nothing refers to any more are reclaimed.
Collect(s, reg, ms, m, r) ==
    [o \in ObjIds |->
        IF o \in Range(reg) \cup Range(ms) \cup m.todo \cup {m.cur, r.obj}
        THEN s[o] ELSE FreeServer]

\* Start's first loop as it would be if NewManagedServer never failed.
Creates_Always(d) == d.enabled

\* Whether Start's first loop gets a ManagedServer for definition d.
Creates(d) == d.enabled /\ FactoryCreateOK(d.transport)
NumCreated(cfg) == Cardinality({i \in 1..Len(cfg) : Creates(cfg[i])})
FreeSlots(s) == {o \in ObjIds : s[o].name = ""}
Min(S) == CHOOSE x \in S : \A y \in S : x <= y

\* The first loop of Manager.Start, from definition i on: every enabled
\* definition whose transport the factory knows gets a new ManagedServer,
\* stored in Manager.servers and then offered to the Registry.
RECURSIVE StartRegister(_, _)
StartRegister(i, st) ==
    IF i > Len(config) THEN st
    ELSE IF ~Creates(config[i]) THEN StartRegister(i + 1, st)
    ELSE LET o == Min(FreeSlots(st.srv))
             d == config[i]
         IN  StartRegister(i + 1,
                 [srv |-> [st.srv EXCEPT ![o] = NewManagedServer(d)],
                  ms  |-> [st.ms EXCEPT ![d.name] = o],
                  reg |-> Register(st.reg, o, d.name)])

\* --------------------------------------------------------------- router
\* The version check as it would be if it let "1.0" through.
ValidVersion_Lenient(req) == req.jsonrpc \in {"1.0", "2.0"}

\* The version check of Router.Route.
ValidVersion(req) == req.jsonrpc = "2.0"

\* Router.extractCapability; "" is no capability.
ExtractCapability(method) ==
    IF HasPrefix(method, StrToolsSlash) THEN "tools"
    ELSE IF HasPrefix(method, StrResourcesSlash) THEN "resources"
    ELSE IF HasPrefix(method, StrPromptsSlash) THEN "prompts"
    ELSE ""

\* The "_server" member of the params when they decode to an object that
\* has it as a string; "" otherwise.
HintName(req) ==
    IF /\ req.params.kind = "object"
       /\ HasKey(req.params.obj, "_server")
       /\ IsJSONString(Field(req.params.obj, "_server"))
    THEN Field(req.params.obj, "_server")
    ELSE ""

\* findTargetServer as it would be without the look at "_server".
FindTargetServer_IgnoreHint(req) ==
    LET capability == ExtractCapability(req.method) IN
    IF capability /= "" THEN ListServersByCapability(capability) ELSE {}

\* Router.findTargetServer: the servers it may return; {} is nil.
FindTargetServer(req) ==
    IF HintName(req) /= "" /\ GetServer(HintName(req)) /= NoObj
    THEN {GetServer(HintName(req))}
    ELSE LET capability == ExtractCapability(req.method) IN
         IF capability /= "" THEN ListServersByCapability(capability) ELSE {}

\* routeToServer as it would be without the fallback to ListServers().
RouteTargets_NoFallback(req) == FindTargetServer(req)

\* The server routeToServer sends to: findTargetServer's, else the first
\* of ListServers(); {} when no server is registered.
RouteTargets(req) ==
    IF FindTargetServer(req) /= {} THEN FindTargetServer(req) ELSE ListServers

\* The map routeToServer hands to SendRequest: the id when it is not nil,
\* the params when there are any and they decode.
ForwardedParams(params) ==
    IF params.kind = "object" THEN params ELSE PAbsent
ForwardedRequest(req) ==
    [jsonrpc |-> req.jsonrpc, method |-> req.method, id |-> req.id,
     params |-> ForwardedParams(req.params)]

\* json.Unmarshal of the params into struct{Name string}.
NameParam(req) ==
    IF req.params.kind = "absent" THEN [err |-> FALSE, name |-> ""]
    ELSE IF req.params.kind = "invalid" THEN [err |-> TRUE, name |-> ""]
    ELSE IF ~HasKey(req.params.obj, "name") THEN [err |-> FALSE, name |-> ""]
    ELSE IF ~IsJSONString(Field(req.params.obj, "name")) THEN [err |-> TRUE, name |-> ""]
    ELSE [err |-> FALSE, name |-> Field(req.params.obj, "name")]

ServerSummary(o) ==
    [name |-> srv[o].name, connected |-> IsConnected(srv[o]),
     initialized |-> IsInitialized(srv[o]), transport |-> srv[o].transport,
     capabilities |-> srv[o].caps]
ServerStatus(o) ==
    [connected |-> IsConnected(srv[o]), initialized |-> IsInitialized(srv[o]),
     last_used |-> GetLastUsed(srv[o])]
ServerCapabilities(o) == [name |-> srv[o].name, capabilities |-> srv[o].caps]

\* The invalid-params Response as it would be without its ID member.
InvalidParamsResponse_NoID(req) == Response(NilID, InvalidParams, NoResult)

InvalidParamsResponse(req) == Response(req.id, InvalidParams, NoResult)
ServerNotFoundResponse(req) == Response(req.id, ServerError, NoResult)

HandleListServers(req) ==
    Response(req.id, NoError,
             [kind |-> "list_servers", items |-> {ServerSummary(o) : o \in ListServers}])

HandleGetServer(req) ==
    LET p == NameParam(req) IN
    IF p.err THEN InvalidParamsResponse(req)
    ELSE IF GetServer(p.name) = NoObj THEN ServerNotFoundResponse(req)
    ELSE Response(req.id, NoError,
                  [kind |-> "get_server", items |-> {ServerSummary(GetServer(p.name))}])

HandleServerStatus(req) ==
    LET p == NameParam(req) IN
    IF p.err THEN InvalidParamsResponse(req)
    ELSE IF GetServer(p.name) = NoObj THEN ServerNotFoundResponse(req)
    ELSE Response(req.id, NoError,
                  [kind |-> "server_status", items |-> {ServerStatus(GetServer(p.name))}])

HandleCapabilities(req) ==
    LET p == NameParam(req) IN
    IF p.err THEN InvalidParamsResponse(req)
    ELSE IF p.name /= ""
    THEN IF GetServer(p.name) = NoObj THEN ServerNotFoundResponse(req)
         ELSE Response(req.id, NoError,
                       [kind |-> "capabilities",
                        items |-> {ServerCapabilities(GetServer(p.name))}])
    ELSE Response(req.id, NoError,
                  [kind |-> "capabilities",
                   items |-> {ServerCapabilities(o) : o \in ListServers}])

\* The Response for the gateway's own methods.
HandleGateway(req) ==
    IF req.method = StrListServers THEN HandleListServers(req)
    ELSE IF req.method = StrGetServer THEN HandleGetServer(req)
    ELSE IF req.method = StrServerStatus THEN HandleServerStatus(req)
    ELSE HandleCapabilities(req)

\* The switch as it would be without the case for gateway/capabilities.
IsGatewayMethod_Missing(method) == method \in GatewayMethods \ {StrCapabilities}

\* The switch of Router.Route on the gateway's own methods.
IsGatewayMethod(method) == method \in GatewayMethods

VersionErrorResponse == Response(NilID, InvalidRequest, NoResult)
NoServersResponse(req) == Response(req.id, ServerError, NoResult)
ParseErrorResponse(req) == Response(req.id, ParseError, NoResult)

\* json.Unmarshal of the bytes SendRequest returned into a Response, and
\* the parse-error Response when that fails.
DecodeResponse(req, data) ==
    IF data.decodes THEN Response(data.id, data.error, data.result)
    ELSE ParseErrorResponse(req)

\* A ListByCapability in progress: the capability asked for, the servers
\* of the map not yet visited, those kept so far, and what the whole list
\* was at each instant since the call began.
NoScan == [active |-> FALSE, cap |-> "", todo |-> {}, result |-> {}, snaps |-> {}]

\* ----------------------------------------------------------------- pool
\* A health score is a fraction <<numerator, denominator>> in lowest terms.
RECURSIVE Gcd(_, _)
Gcd(a, b) == IF b = 0 THEN a ELSE Gcd(b, a % b)
Frac(n, d) == <<n \div Gcd(n, d), d \div Gcd(n, d)>>
Lcm(a, b) == (a \div Gcd(a, b)) * b
\* A float64 score is the fraction <<n, d>>, d > 0, in lowest terms; at the
\* bottom of float64's range it is <<k, Subnormal>>: k times the least
\* positive float64, 2^-1074, which is below every fraction followed here.
Subnormal == 0
Less(x, y) ==
    IF x[2] = Subnormal /\ y[2] = Subnormal THEN x[1] < y[1]
    ELSE IF x[2] = Subnormal THEN TRUE
    ELSE IF y[2] = Subnormal THEN FALSE
    ELSE x[1] * (Lcm(x[2], y[2]) \div x[2]) < y[1] * (Lcm(x[2], y[2]) \div y[2])
ScoreOne == <<1, 1>>
ScoreHalf == <<1, 2>>

\* ReturnTransport's two updates: healthScore *= 0.9 and
\* healthScore = (healthScore + 1.0) / 2.0.  The float64 nearest 0.9 is a
\* little above it, so the product of k * 2^-1074 is rounded to the
\* nearest multiple of 2^-1074, a half going up; that score added to 1.0
\* is 1.0.
OnError_Keeps(score) == score
OnError(score) ==
    IF score[2] = Subnormal THEN <<(9 * score[1] + 5) \div 10, Subnormal>>
    ELSE Frac(9 * score[1], 10 * score[2])
OnSuccess(score) ==
    IF score[2] = Subnormal THEN ScoreHalf
    ELSE Frac(score[1] + score[2], 2 * score[2])

\* The transport types a caller asks the pool for; the factory does not
\* know the last.
PoolKinds == {"stdio", "http", "carrier-pigeon"}
PoolIds == 1..MaxPooled
NoPooled == 0

\* A slot of pool.obj that holds no PooledTransport.
FreePooled ==
    [kind |-> "", connected |-> FALSE, healthScore |-> ScoreOne,
     lastUsed |-> 0, requestCount |-> 0, lastError |-> FALSE]

\* The PooledTransport GetTransport builds around a new Transport, which
\* is not connected.
NewPooled(kind, now) ==
    [kind |-> kind, connected |-> FALSE, healthScore |-> ScoreOne,
     lastUsed |-> now, requestCount |-> 0, lastError |-> FALSE]

\* NewConnectionPool.  transports is the map from type to slice, obj the
\* PooledTransports the slices point to, now the time.
NewConnectionPool(maxPerType, maxIdleTime) ==
    [maxPerType |-> maxPerType, maxIdleTime |-> maxIdleTime,
     transports |-> [k \in PoolKinds |-> <<>>],
     obj |-> [i \in PoolIds |-> FreePooled], now |-> 0]
NoPool == NewConnectionPool(0, 0)

SeqRange(q) == {q[i] : i \in 1..Len(q)}
Pooled(p) == UNION {SeqRange(p.transports[k]) : k \in PoolKinds}

\* PooledTransports no slice points to any more are reclaimed.
PoolCollect(p) ==
    [p EXCEPT !.obj = [i \in PoolIds |->
                        IF i \in Pooled(p) THEN p.obj[i] ELSE FreePooled]]

\* append(transports[:i], transports[i+1:]...) on the slice's own array:
\* the cells after i move down one place and the last cell keeps its value.
ShiftLeft(A, i) ==
    [j \in 1..Len(A) |->
        IF j < i THEN A[j] ELSE IF j < Len(A) THEN A[j + 1] ELSE A[Len(A)]]

\* Whether GetTransport may hand out a pooled entry.
Eligible(e) == e.connected /\ Less(ScoreHalf, e.healthScore)

\* GetTransport's loop from index i on, over the array A that the local
\* slice and the map's slice share.  The loop's length is fixed when it
\* starts, while each removal moves the cells under it.
RECURSIVE ScanPool(_, _, _, _)
ScanPool(obj, A, i, removed) ==
    IF i > Len(A) THEN [found |-> NoPooled, A |-> A, removed |-> removed]
    ELSE IF Eligible(obj[A[i]])
        THEN [found |-> A[i], A |-> A, removed |-> removed]
    ELSE IF ~obj[A[i]].connected
        THEN ScanPool(obj, ShiftLeft(A, i), i + 1, TRUE)
    ELSE ScanPool(obj, A, i + 1, removed)

\* The test for room as it would be if the pool had no limit.
HasRoom_Always(p, A) == TRUE

\* GetTransport's test for room, on its local slice.
HasRoom(p, A) == Len(A) < p.maxPerType

\* ConnectionPool.GetTransport: the pool after it, the transport it
\* returns and its error.  After a removal the map's slice is one shorter
\* than the array; the test for a full pool reads the local slice.
GetTransport(p, kind) ==
    LET A == p.transports[kind]
        sc == ScanPool(p.obj, A, 1, FALSE)
        stored == IF sc.removed THEN SubSeq(sc.A, 1, Len(A) - 1) ELSE A
        p1 == [p EXCEPT !.transports[kind] = stored]
    IN  IF sc.found /= NoPooled
        THEN [pool |-> PoolCollect(
                          [p1 EXCEPT !.obj[sc.found].lastUsed = p.now,
                                     !.obj[sc.found].requestCount = @ + 1]),
              t |-> sc.found, why |-> ""]
        ELSE IF HasRoom(p, A)
        THEN IF ~FactoryCreateOK(kind)
             THEN [pool |-> PoolCollect(p1), t |-> NoPooled, why |-> "unknown"]
             ELSE LET q == PoolCollect(p1)
                      n == CHOOSE i \in PoolIds :
                              /\ q.obj[i].kind = ""
                              /\ \A j \in PoolIds : q.obj[j].kind = "" => i <= j
                  IN  [pool |-> [q EXCEPT !.obj[n] = NewPooled(kind, p.now),
                                         !.transports[kind] = Append(stored, n)],
                       t |-> n, why |-> ""]
        ELSE [pool |-> PoolCollect(p1), t |-> NoPooled, why |-> "exhausted"]

\* ConnectionPool.ReturnTransport: the score of the entry that wraps t,
\* none when no entry does.
ReturnTransport(p, t, err) ==
    IF t \notin Pooled(p) THEN p
    ELSE [p EXCEPT !.obj[t].healthScore = IF err THEN OnError(@) ELSE OnSuccess(@),
                   !.obj[t].lastError = IF err THEN TRUE ELSE @]

\* ConnectionPool.Close: every entry's Transport disconnected, the map
\* made anew.
Close(p) ==
    PoolCollect([p EXCEPT !.transports = [k \in PoolKinds |-> <<>>]])

\* ConnectionPool.CleanIdleConnections: the entries used longer ago than
\* maxIdleTime are disconnected and dropped.
IsIdle(e, p) == p.now - e.lastUsed > p.maxIdleTime
CleanIdleConnections(p) ==
    LET keep(q) == SelectSeq(q, LAMBDA i : ~IsIdle(p.obj[i], p))
        gone == {i \in Pooled(p) : IsIdle(p.obj[i], p)}
    IN  PoolCollect(
            [p EXCEPT !.transports = [k \in PoolKinds |-> keep(p.transports[k])],
                      !.obj = [i \in PoolIds |->
                                IF i \in gone THEN [p.obj[i] EXCEPT !.connected = FALSE]
                                ELSE p.obj[i]]])

\* ------------------------------------------------------- the last call
NoRequest == [jsonrpc |-> "", id |-> NilID, method |-> <<>>, params |-> PAbsent]

\* A Route that is inside StdioTransport.SendRequest.
\*   stage      "write" at stdin.Write, "select" at the select statement
\*   obj, req   the target server and the request
\*   t          the time ManagedServer.SendRequest read
\*   room       whether the subprocess's stdin pipe has room for the request
\*   line       what the reader has put on respChan, "" when nothing
\*   cancelled  whether the caller's context is done
NoWait ==
    [stage |-> "none", obj |-> NoObj, req |-> NoRequest, t |-> 0,
     room |-> FALSE, line |-> "", cancelled |-> FALSE]

NoResponse == [jsonrpc |-> "", id |-> NilID, error |-> NoError, result |-> NoResult]
NoConnect ==
    [obj |-> NoObj, attempt |-> 0, connected |-> FALSE, initialized |-> FALSE,
     err |-> FALSE, tcalls |-> 0, sent |-> FALSE, resp |-> NoHandshake,
     after |-> [connected |-> FALSE, initialized |-> FALSE],
     done |-> FALSE, log |-> <<>>]
NoSend ==
    [data |-> Undecodable, err |-> FALSE, tcalls |-> 0, terr |-> FALSE,
     tdata |-> Undecodable, t |-> 0]

\* The call that is returning to its caller.
\* op      the operation, "" when none is returning
\* err     whether it returns an error (ReconnectServer)
\* req     Route's request;  resp  the Response it returns
\* target  the server routeToServer chose, NoObj when none
\* sends   how many times ManagedServer.SendRequest was called
\* fwd     the request handed to it;  sr  what it returned, and the clock
\*         reading t it took
\* conn    the ManagedServer.Connect call that has just returned: the
\*         server, the attempt's number, the server's flags before it,
\*         what Connect returned and the server's flags after it; done
\*         is whether connectWithRetry returns after it, log what each
\*         attempt of that run did: whether Connect failed, the backoff
\*         it began after it (0 for none) and whether the context ended
\*         that wait
\* tried   how Start's connect loop ended for each server
\* count   how many servers Stop found in Manager.servers
\* name    the name ReconnectServer did not find, the name or capability
\*         a read was given
\* result  the servers a read of the registry returned
\* snaps   what the read would have returned at each instant while it ran
\* waited  whether the Route got as far as stdin.Write
\* line    the upstream's answer that Route received, "" when it got none
\* kind    the transport type GetTransport was asked for
\* t       the transport GetTransport returned or ReturnTransport was given
\* why     GetTransport's error: "exhausted", "unknown" (from the factory)
\* before  the pool when the pool's operation was called
Call(op, err) ==
    [op |-> op, err |-> err, req |-> NoRequest, resp |-> NoResponse,
     target |-> NoObj, sends |-> 0, fwd |-> NoRequest, sr |-> NoSend,
     conn |-> NoConnect, tried |-> NoneTried, count |-> 0, name |-> "",
     result |-> {}, snaps |-> {}, waited |-> FALSE, line |-> "",
     kind |-> "", t |-> NoPooled, why |-> "", before |-> NoPool]
NoCall == Call("", FALSE)

\* time.Now(): no earlier than any reading a server has kept.
Clock == {t \in 1..MaxTime : \A o \in ObjIds : srv[o].lastUsed <= t}

\* -------------------------------------------------------------- actions
Init ==
    /\ config \in Configs
    /\ registry = EmptyMap
    /\ mservers = EmptyMap
    /\ srv = [o \in ObjIds |-> FreeServer]
    /\ mgr = Idle
    /\ rc = NoReconnect
    /\ scan = NoScan
    /\ wait = NoWait
    /\ pool = NewConnectionPool(1, 0)
    /\ thr = NoThreads
    /\ call = NoCall

\* The last call's result reaches its caller.
Return ==
    /\ call /= NoCall
    /\ call' = NoCall
    /\ UNCHANGED <<config, thr, pool, scan, wait, registry, mservers, srv, mgr, rc>>

\* ManagedServer.SetCapabilities, by a holder of a server from ListServers.
\* It takes the server's lock only, so it can run during a ListByCapability.
SetCapabilities ==
    /\ call = NoCall
    /\ \E o \in Range(registry), caps \in CapLists :
        /\ srv[o].caps /= caps
        /\ srv' = [srv EXCEPT ![o].caps = caps]
        /\ scan' = IF scan.active
                   THEN [scan EXCEPT !.snaps = @ \cup
                            {{x \in Range(registry) :
                                HasCapability(srv'[x], scan.cap)}}]
                   ELSE scan
    /\ UNCHANGED <<config, thr, pool, wait, registry, mservers, mgr, rc, call>>

\* The upstream subprocess exits.
UpstreamExit ==
    /\ call = NoCall
    /\ \E o \in ObjIds :
        /\ srv[o].alive
        /\ srv' = [srv EXCEPT ![o].alive = FALSE]
    /\ UNCHANGED <<config, thr, pool, scan, wait, registry, mservers, mgr, rc, call>>

\* readResponses of the stdio, unix and websocket Transports: the read
\* from the dead upstream fails and the reader marks the Transport
\* disconnected.  The HTTP Transport has no reader.
ReadResponses ==
    /\ call = NoCall
    /\ \E o \in ObjIds :
        /\ srv[o].tconn /\ ~srv[o].alive
        /\ srv[o].transport /= "http"
        /\ srv' = [srv EXCEPT ![o] = ReadError(srv[o])]
    /\ UNCHANGED <<config, thr, pool, scan, wait, registry, mservers, mgr, rc, call>>

\* Manager.Start up to its connect loop; it keeps the Manager lock until
\* the loop is done.
Start ==
    /\ call = NoCall
    /\ mgr.lock = "free" /\ ~scan.active
    /\ Cardinality(FreeSlots(srv)) >= NumCreated(config)
    /\ LET st == StartRegister(1, [srv |-> srv, ms |-> mservers, reg |-> registry])
           m == IF Range(st.ms) = {} THEN Idle
                ELSE [lock |-> "Start", todo |-> Range(st.ms), cur |-> NoObj,
                      attempt |-> 0, tried |-> NoneTried, log |-> <<>>]
       IN  /\ registry' = st.reg
           /\ mservers' = st.ms
           /\ mgr' = m
           /\ srv' = Collect(st.srv, st.reg, st.ms, m, rc)
           /\ call' = IF m = Idle THEN Call("Start", FALSE) ELSE NoCall
    /\ UNCHANGED <<config, thr, pool, scan, wait, rc>>

\* One pass of connectWithRetry's loop on server o: a Connect attempt and,
\* when it failed and attempts remain, the backoff wait, which the deadline
\* may cut short.
ConnectAttempt(o, attempt, t, out, cancelled, log) ==
    LET c == Connect(srv[o], t, out)
        done == ~c.err \/ attempt >= MaxRetries \/ cancelled
        backoff == IF c.err /\ attempt < MaxRetries THEN Backoff(attempt) ELSE 0
        log1 == Append(log, [err |-> c.err, backoff |-> backoff,
                             cancelled |-> cancelled])
    IN
    [srv |-> c.srv, err |-> c.err, done |-> done, log |-> log1,
     conn |-> [obj |-> o, attempt |-> attempt, connected |-> srv[o].connected,
               initialized |-> srv[o].initialized, err |-> c.err,
               tcalls |-> c.tcalls, sent |-> c.sent, resp |-> c.resp,
               after |-> [connected |-> c.srv.connected,
                          initialized |-> c.srv.initialized],
               done |-> done, log |-> log1]]

\* Manager.Start's connect loop, one pass; Start returns after the last.
StartConnect ==
    /\ call = NoCall
    /\ mgr.lock = "Start"
    /\ \E o \in (IF mgr.cur = NoObj THEN mgr.todo ELSE {mgr.cur}),
          t \in Clock, out \in ConnectOutcomes, cancelled \in BOOLEAN :
        \E attempt \in {IF mgr.cur = NoObj THEN 1 ELSE mgr.attempt} :
        \E a \in {ConnectAttempt(o, attempt, t, out, cancelled,
                                 IF mgr.cur = NoObj THEN <<>> ELSE mgr.log)} :
        \E tried \in {[mgr.tried EXCEPT ![o] = IF a.err THEN "failed" ELSE "ok"]} :
            /\ cancelled => a.err /\ attempt < MaxRetries
            /\ mgr' = IF ~a.done
                      THEN [lock |-> "Start", todo |-> mgr.todo \ {o}, cur |-> o,
                            attempt |-> attempt + 1, tried |-> mgr.tried,
                            log |-> a.log]
                      ELSE IF mgr.todo \ {o} = {} THEN Idle
                      ELSE [lock |-> "Start", todo |-> mgr.todo \ {o}, cur |-> NoObj,
                            attempt |-> 0, tried |-> tried, log |-> <<>>]
            /\ srv' = Collect([srv EXCEPT ![o] = a.srv], registry, mservers, mgr', rc)
            /\ call' = [Call(IF mgr' = Idle THEN "Start" ELSE "Connect", FALSE)
                           EXCEPT !.conn = a.conn,
                                  !.tried = IF mgr' = Idle THEN tried ELSE NoneTried]
    /\ UNCHANGED <<config, thr, pool, scan, wait, registry, mservers, rc>>

\* Stop as it would be without the Unregister calls.
StopRegistry_KeepsAll == registry

\* Manager.Stop: the Registry after its loop.
StopRegistry ==
    [n \in ServerNames |->
        IF mservers[n] /= NoObj THEN Unregister(registry, n)[n] ELSE registry[n]]
Stop ==
    /\ call = NoCall
    /\ mgr.lock = "free" /\ ~scan.active
    /\ registry' = StopRegistry
    /\ mservers' = EmptyMap
    /\ srv' = Collect([o \in ObjIds |->
                        IF o \in Range(mservers) THEN Disconnect(srv[o]) ELSE srv[o]],
                      StopRegistry, EmptyMap, mgr, rc)
    /\ call' = [Call("Stop", FALSE) EXCEPT !.count = Cardinality(Range(mservers))]
    /\ UNCHANGED <<config, thr, pool, scan, wait, mgr, rc>>

\* Manager.ReconnectServer up to its connect loop.
ReconnectServer ==
    /\ call = NoCall
    /\ mgr.lock = "free" /\ ~scan.active
    /\ rc.obj = NoObj
    /\ \E name \in ServerNames :
        IF mservers[name] = NoObj
        THEN /\ call' = [Call("ReconnectServer", TRUE) EXCEPT !.name = name]
             /\ UNCHANGED <<srv, rc>>
        ELSE /\ srv' = [srv EXCEPT ![mservers[name]] = Disconnect(@)]
             /\ rc' = [obj |-> mservers[name], attempt |-> 1, log |-> <<>>]
             /\ UNCHANGED call
    /\ UNCHANGED <<config, thr, pool, scan, wait, registry, mservers, mgr>>

\* ReconnectServer's connect loop, one pass; it returns after the last.
ReconnectConnect ==
    /\ call = NoCall
    /\ rc.obj /= NoObj
    /\ \E t \in Clock, out \in ConnectOutcomes, cancelled \in BOOLEAN :
        \E a \in {ConnectAttempt(rc.obj, rc.attempt, t, out, cancelled, rc.log)} :
            /\ cancelled => a.err /\ rc.attempt < MaxRetries
            /\ rc' = IF a.done THEN NoReconnect
                     ELSE [rc EXCEPT !.attempt = @ + 1, !.log = a.log]
            /\ srv' = Collect([srv EXCEPT ![rc.obj] = a.srv], registry, mservers,
                              mgr, rc')
            /\ call' = [Call(IF a.done THEN "ReconnectServer" ELSE "Connect", a.err)
                           EXCEPT !.conn = a.conn]
    /\ UNCHANGED <<config, thr, pool, scan, wait, registry, mservers, mgr>>

\* Router.Route on a request whose version is not "2.0".
RouteReject(req) ==
    /\ ~ValidVersion(req)
    /\ call' = [Call("Route", FALSE) EXCEPT !.req = req, !.resp = VersionErrorResponse]
    /\ UNCHANGED <<config, thr, pool, scan, wait, registry, mservers, srv, mgr, rc>>

\* Router.Route on one of the gateway's own methods.  The Manager's read
\* lock waits for a Start in progress.
RouteGateway(req) ==
    /\ ValidVersion(req)
    /\ IsGatewayMethod(req.method)
    /\ mgr.lock = "free"
    /\ call' = [Call("Route", FALSE) EXCEPT !.req = req, !.resp = HandleGateway(req)]
    /\ UNCHANGED <<config, thr, pool, scan, wait, registry, mservers, srv, mgr, rc>>

\* Router.routeToServer
RouteToServer(req) ==
    /\ ValidVersion(req)
    /\ ~IsGatewayMethod(req.method)
    /\ mgr.lock = "free"
    /\ IF RouteTargets(req) = {}
       THEN /\ call' = [Call("Route", FALSE) EXCEPT
                            !.req = req, !.resp = NoServersResponse(req)]
            /\ UNCHANGED srv
       ELSE \E o \in RouteTargets(req), t \in Clock, up \in UpstreamOutcomes :
              LET fwd == ForwardedRequest(req)
                  sr == ManagedSendRequest(srv[o], t, fwd, up)
                  resp == IF sr.err THEN Response(req.id, InternalError, NoResult)
                          ELSE DecodeResponse(req, sr.data)
              IN  /\ srv' = [srv EXCEPT ![o] = sr.srv]
                  /\ call' = [Call("Route", FALSE) EXCEPT
                                  !.req = req, !.resp = resp, !.target = o,
                                  !.sends = 1, !.fwd = fwd,
                                  !.sr = [data |-> sr.data, err |-> sr.err,
                                          tcalls |-> sr.tcalls, terr |-> sr.terr,
                                          tdata |-> sr.tdata, t |-> t]]
    /\ UNCHANGED <<config, thr, pool, scan, wait, registry, mservers, mgr, rc>>

\* Router.Route on a request of R.
Route(R) ==
    /\ call = NoCall
    /\ \E req \in R :
        \/ RouteReject(req)
        \/ RouteGateway(req)
        \/ RouteToServer(req)

\* The line an upstream that answers as up puts on respChan.
UpstreamLine(request, up) ==
    TransportSendRequest([tconn |-> TRUE, alive |-> TRUE], request, up).data

\* What Route returns once Transport.SendRequest has returned (err, data):
\* ManagedServer.SendRequest turns the error into its own envelope and
\* routeToServer decodes the bytes.
WaitResult(err, data, line) ==
    LET sent == IF err THEN LocalErrorEnvelope ELSE data IN
    [Call("Route", FALSE) EXCEPT
        !.req = wait.req, !.resp = DecodeResponse(wait.req, sent),
        !.target = wait.obj, !.sends = 1, !.fwd = ForwardedRequest(wait.req),
        !.sr = [data |-> sent, err |-> FALSE, tcalls |-> 1, terr |-> err,
                tdata |-> data, t |-> wait.t],
        !.waited = TRUE, !.line = line]

\* Router.Route on a request for a server that is connected and
\* initialized, as far as the Transport's write to the subprocess.
RouteBegin ==
    /\ call = NoCall /\ wait = NoWait
    /\ mgr.lock = "free"
    /\ \E req \in ProbeRequests, t \in Clock, room \in BOOLEAN :
        /\ ValidVersion(req) /\ ~IsGatewayMethod(req.method)
        /\ \E o \in RouteTargets(req) :
            /\ srv[o].connected /\ srv[o].initialized /\ srv[o].tconn
            /\ srv' = [srv EXCEPT ![o].lastUsed = t]
            /\ wait' = [NoWait EXCEPT !.stage = "write", !.obj = o, !.req = req,
                                      !.t = t, !.room = room]
    /\ UNCHANGED <<config, thr, pool, scan, registry, mservers, mgr, rc, call>>

\* t.stdin.Write returns: with an error when the subprocess is gone, else
\* once the pipe has taken the request.  It does not look at the context.
WaitWrite ==
    /\ call = NoCall /\ wait.stage = "write"
    /\ IF ~srv[wait.obj].alive
       THEN /\ call' = WaitResult(TRUE, Undecodable, "")
            /\ wait' = NoWait
       ELSE /\ wait.room
            /\ wait' = [wait EXCEPT !.stage = "select"]
            /\ UNCHANGED call
    /\ UNCHANGED <<config, thr, pool, scan, registry, mservers, srv, mgr, rc>>

\* The upstream reads from its stdin and makes room in the pipe.
UpstreamReads ==
    /\ call = NoCall /\ wait.stage = "write" /\ ~wait.room
    /\ srv[wait.obj].alive
    /\ wait' = [wait EXCEPT !.room = TRUE]
    /\ UNCHANGED <<config, thr, pool, scan, registry, mservers, srv, mgr, rc, call>>

\* The upstream answers and the reader puts the line on respChan.
UpstreamAnswers ==
    /\ call = NoCall /\ wait.stage = "select" /\ wait.line = ""
    /\ srv[wait.obj].alive /\ srv[wait.obj].tconn
    /\ \E up \in UpstreamOutcomes \ {"silent"} :
        wait' = [wait EXCEPT !.line = up]
    /\ UNCHANGED <<config, thr, pool, scan, registry, mservers, srv, mgr, rc, call>>

\* The caller's context is cancelled or its deadline passes.
Cancel ==
    /\ call = NoCall /\ wait.stage /= "none" /\ ~wait.cancelled
    /\ wait' = [wait EXCEPT !.cancelled = TRUE]
    /\ UNCHANGED <<config, thr, pool, scan, registry, mservers, srv, mgr, rc, call>>

\* The select of Transport.SendRequest takes one of its ready cases: a
\* line on respChan, respChan closed by the reader that has returned (the
\* receive gives nil bytes and no error), or ctx.Done().
WaitSelect ==
    /\ call = NoCall /\ wait.stage = "select"
    /\ \/ /\ wait.line /= ""
          /\ call' = WaitResult(FALSE,
                          UpstreamLine(ForwardedRequest(wait.req), wait.line),
                          wait.line)
       \/ /\ wait.line = "" /\ ~srv[wait.obj].tconn
          /\ call' = WaitResult(FALSE, Undecodable, "")
       \/ /\ wait.cancelled
          /\ call' = WaitResult(TRUE, Undecodable, "")
    /\ wait' = NoWait
    /\ UNCHANGED <<config, thr, pool, scan, registry, mservers, srv, mgr, rc>>

\* A Registry of its own, as NewRegistry() gives it, and servers made for
\* it with NewManagedServer.
NewServer ==
    /\ call = NoCall
    /\ FreeSlots(srv) /= {}
    /\ \E n \in ServerNames, kind \in TransportTypes :
        srv' = [srv EXCEPT ![Min(FreeSlots(srv))] =
                    NewManagedServer(Def(n, TRUE, kind))]
    /\ UNCHANGED <<config, thr, pool, scan, wait, registry, mservers, mgr, rc, call>>

\* Registry.Register
RegistryRegister ==
    /\ call = NoCall /\ ~scan.active
    /\ \E o \in ObjIds \ FreeSlots(srv) :
        /\ registry' = Register(registry, o, srv[o].name)
        /\ call' = [Call("Register", RegisterFails(registry, srv[o].name))
                        EXCEPT !.name = srv[o].name, !.target = o]
    /\ UNCHANGED <<config, thr, pool, scan, wait, mservers, srv, mgr, rc>>

\* Registry.Unregister
RegistryUnregister ==
    /\ call = NoCall /\ ~scan.active
    /\ \E name \in ServerNames :
        /\ registry' = Unregister(registry, name)
        /\ call' = [Call("Unregister", UnregisterFails(registry, name))
                        EXCEPT !.name = name]
    /\ UNCHANGED <<config, thr, pool, scan, wait, mservers, srv, mgr, rc>>

\* ManagedServer.Connect called by the holder of a server.
CallConnect ==
    /\ call = NoCall
    /\ \E o \in ObjIds \ FreeSlots(srv), t \in Clock, out \in ConnectOutcomes :
        LET c == Connect(srv[o], t, out) IN
        /\ srv' = [srv EXCEPT ![o] = c.srv]
        /\ call' = [Call("ManagedServer.Connect", c.err) EXCEPT
                        !.target = o,
                        !.conn = [obj |-> o, attempt |-> 1,
                                  connected |-> srv[o].connected,
                                  initialized |-> srv[o].initialized,
                                  err |-> c.err, tcalls |-> c.tcalls,
                                  sent |-> c.sent, resp |-> c.resp,
                                  after |-> [connected |-> c.srv.connected,
                                             initialized |-> c.srv.initialized],
                                  done |-> TRUE, log |-> <<>>]]
    /\ UNCHANGED <<config, thr, pool, scan, wait, registry, mservers, mgr, rc>>

\* ManagedServer.Disconnect called by the holder of a server; it returns
\* what Transport.Disconnect returns, and that is never an error.
CallDisconnect ==
    /\ call = NoCall
    /\ \E o \in ObjIds \ FreeSlots(srv) :
        /\ srv' = [srv EXCEPT ![o] = Disconnect(srv[o])]
        /\ call' = [Call("ManagedServer.Disconnect", FALSE) EXCEPT !.target = o]
    /\ UNCHANGED <<config, thr, pool, scan, wait, registry, mservers, mgr, rc>>

\* Transport.Connect called on a server's Transport.
CallTransportConnect ==
    /\ call = NoCall
    /\ \E o \in ObjIds \ FreeSlots(srv), spawns \in BOOLEAN :
        LET c == TransportConnect(srv[o], spawns) IN
        /\ srv' = [srv EXCEPT ![o] = c.srv]
        /\ call' = [Call("Transport.Connect", c.err) EXCEPT !.target = o]
    /\ UNCHANGED <<config, thr, pool, scan, wait, registry, mservers, mgr, rc>>

\* Transport.Disconnect called on a server's Transport; no kind returns an
\* error.
CallTransportDisconnect ==
    /\ call = NoCall
    /\ \E o \in ObjIds \ FreeSlots(srv) :
        /\ srv' = [srv EXCEPT ![o] = TransportDisconnect(srv[o])]
        /\ call' = [Call("Transport.Disconnect", FALSE) EXCEPT !.target = o]
    /\ UNCHANGED <<config, thr, pool, scan, wait, registry, mservers, mgr, rc>>

\* Registry.List / Manager.ListServers: one critical section.
ReadListServers ==
    /\ call = NoCall /\ mgr.lock = "free"
    /\ call' = [Call("ListServers", FALSE) EXCEPT
                    !.result = ListServers, !.snaps = {ListServers}]
    /\ UNCHANGED <<config, thr, pool, scan, wait, registry, mservers, srv, mgr, rc>>

\* Registry.Get / Manager.GetServer: one critical section.
ReadGetServer ==
    /\ call = NoCall /\ mgr.lock = "free"
    /\ \E name \in ServerNames :
        call' = [Call("GetServer", GetServer(name) = NoObj) EXCEPT
                    !.name = name,
                    !.result = {GetServer(name)} \ {NoObj},
                    !.snaps = {{GetServer(name)} \ {NoObj}}]
    /\ UNCHANGED <<config, thr, pool, scan, wait, registry, mservers, srv, mgr, rc>>

\* Registry.ListByCapability takes the Registry's read lock and then asks
\* each server of the map in turn, under that server's own lock.
ScanBegin ==
    /\ call = NoCall /\ mgr.lock = "free" /\ ~scan.active
    /\ \E capability \in {"tools", "resources"} :
        LET now == {ListServersByCapability(capability)} IN
        IF Range(registry) = {}
        THEN /\ call' = [Call("ListServersByCapability", FALSE) EXCEPT
                             !.name = capability, !.result = {}, !.snaps = now]
             /\ UNCHANGED scan
        ELSE /\ scan' = [active |-> TRUE, cap |-> capability,
                         todo |-> Range(registry), result |-> {}, snaps |-> now]
             /\ UNCHANGED call
    /\ UNCHANGED <<config, thr, pool, wait, registry, mservers, srv, mgr, rc>>

\* One iteration of its loop; the call returns after the last.
ScanStep ==
    /\ call = NoCall /\ scan.active
    /\ \E o \in scan.todo :
        LET result == scan.result \cup
                          (IF HasCapability(srv[o], scan.cap) THEN {o} ELSE {})
        IN  IF scan.todo = {o}
            THEN /\ scan' = NoScan
                 /\ call' = [Call("ListServersByCapability", FALSE) EXCEPT
                                 !.name = scan.cap, !.result = result,
                                 !.snaps = scan.snaps]
            ELSE /\ scan' = [scan EXCEPT !.todo = @ \ {o}, !.result = result]
                 /\ UNCHANGED call
    /\ UNCHANGED <<config, thr, pool, wait, registry, mservers, srv, mgr, rc>>

\* The score seven errors in a row leave: the first below one half.
WornScore == OnError(OnError(OnError(OnError(OnError(OnError(OnError(ScoreOne)))))))

\* The pool after n rounds of GetTransport("stdio"), Connect on what it
\* returned, and seven ReturnTransport with an error: each round finds
\* every entry connected and worn, and so adds one.
WornPool(maxPerType, n) ==
    [NewConnectionPool(maxPerType, 0) EXCEPT
        !.transports["stdio"] = [i \in 1..n |-> i],
        !.obj = [i \in PoolIds |->
                    IF i <= n
                    THEN [NewPooled("stdio", 0) EXCEPT
                            !.connected = TRUE, !.healthScore = WornScore,
                            !.lastError = TRUE]
                    ELSE FreePooled]]

\* The score of a new entry after 7047 errors in a row: 8 * 2^-1074.
DecayedScore == <<8, Subnormal>>

\* The pool after GetTransport("stdio"), Connect on what it returned, and
\* 7047 ReturnTransport with an error.
DecayedPool ==
    [NewConnectionPool(1, 0) EXCEPT
        !.transports["stdio"] = <<1>>,
        !.obj[1] = [NewPooled("stdio", 0) EXCEPT
                        !.connected = TRUE, !.healthScore = DecayedScore,
                        !.lastError = TRUE]]

\* A caller of the pool's: no ManagedServers, and a new pool or one that
\* has come to hold some worn entries.
PoolStart(sizes, rounds) ==
    /\ config = <<>>
    /\ registry = EmptyMap
    /\ mservers = EmptyMap
    /\ srv = [o \in ObjIds |-> FreeServer]
    /\ mgr = Idle
    /\ rc = NoReconnect
    /\ scan = NoScan
    /\ wait = NoWait
    /\ pool \in {WornPool(m, n) : m \in sizes, n \in rounds}
    /\ Len(pool.transports["stdio"]) <= pool.maxPerType
    /\ thr = NoThreads
    /\ call = NoCall

\* ConnectionPool.GetTransport for one of the types in kinds.
PoolGetTransport(kinds) ==
    /\ call = NoCall
    /\ Cardinality(Pooled(pool)) < MaxPooled
    /\ \E kind \in kinds :
        LET g == GetTransport(pool, kind) IN
        /\ \A i \in PoolIds : g.pool.obj[i].requestCount <= MaxRequests
        /\ pool' = g.pool
        /\ call' = [Call("GetTransport", g.why /= "") EXCEPT
                        !.kind = kind, !.t = g.t, !.why = g.why, !.before = pool]
    /\ UNCHANGED <<config, thr, scan, wait, registry, mservers, srv, mgr, rc>>

\* ConnectionPool.ReturnTransport; errs is whether the error it is given
\* may be, and may not be, nil.  Scores are followed as far as MaxDen.
PoolReturnTransport(errs) ==
    /\ call = NoCall
    /\ \E t \in PoolIds, err \in errs :
        /\ pool' = ReturnTransport(pool, t, err)
        /\ \A i \in PoolIds : pool'.obj[i].healthScore[2] <= MaxDen
        /\ call' = [Call("ReturnTransport", FALSE) EXCEPT
                        !.t = t, !.why = IF err THEN "error" ELSE "",
                        !.before = pool]
    /\ UNCHANGED <<config, thr, scan, wait, registry, mservers, srv, mgr, rc>>

\* ConnectionPool.Close; no Transport's Disconnect returns an error.
PoolClose ==
    /\ call = NoCall
    /\ pool' = Close(pool)
    /\ call' = [Call("Close", FALSE) EXCEPT !.before = pool]
    /\ UNCHANGED <<config, thr, scan, wait, registry, mservers, srv, mgr, rc>>

\* ConnectionPool.CleanIdleConnections
PoolCleanIdleConnections ==
    /\ call = NoCall
    /\ pool' = CleanIdleConnections(pool)
    /\ call' = [Call("CleanIdleConnections", FALSE) EXCEPT !.before = pool]
    /\ UNCHANGED <<config, thr, scan, wait, registry, mservers, srv, mgr, rc>>

\* Time passes.
PoolTick ==
    /\ call = NoCall
    /\ pool.now < MaxPoolTime
    /\ pool' = [pool EXCEPT !.now = @ + 1]
    /\ UNCHANGED <<config, thr, scan, wait, registry, mservers, srv, mgr, rc, call>>

\* The borrower of a pooled Transport connects it.
BorrowerConnect ==
    /\ call = NoCall
    /\ \E t \in Pooled(pool) :
        /\ ~pool.obj[t].connected
        /\ pool' = [pool EXCEPT !.obj[t].connected = TRUE]
    /\ UNCHANGED <<config, thr, scan, wait, registry, mservers, srv, mgr, rc, call>>

\* The borrower disconnects it, or its reader meets an I/O error.
BorrowerDisconnect ==
    /\ call = NoCall
    /\ \E t \in Pooled(pool) :
        /\ pool.obj[t].connected
        /\ pool' = [pool EXCEPT !.obj[t].connected = FALSE]
    /\ UNCHANGED <<config, thr, scan, wait, registry, mservers, srv, mgr, rc, call>>

\* ------------------------------------------------- goroutines on a server
\* The server the goroutines share.
Shared == Min(ObjIds)

\* The Transports that read lines from a subprocess or a socket in a
\* goroutine of their own, and hand them over on respChan.
LineTransports == {"stdio", "unix"}

\* One ManagedServer from NewManagedServer, over a StdioTransport or a
\* UnixSocketTransport, in the hands of several goroutines.
ThreadInit ==
    /\ config = <<>>
    /\ registry = EmptyMap
    /\ mservers = EmptyMap
    /\ \E kind \in LineTransports :
        srv = [o \in ObjIds |->
                IF o = Shared THEN NewManagedServer(Def("a", TRUE, kind))
                ELSE FreeServer]
    /\ mgr = Idle
    /\ rc = NoReconnect
    /\ scan = NoScan
    /\ wait = NoWait
    /\ pool = NewConnectionPool(1, 0)
    /\ thr = NoThreads
    /\ call = NoCall

\* thr when goroutine t returns from Connect or Disconnect: the deferred
\* Unlock runs.
Unlocked(h, t) == [h EXCEPT !.mutex = NoThread, !.pc[t] = "idle"]

\* The goroutines waiting in a select on a respChan that a new Connect has
\* replaced: they are left with the old channel.
Stale(pc) ==
    [t \in Threads |-> IF pc[t] = "Send:select" THEN "Send:stale" ELSE pc[t]]

\* The requests of goroutine t that are on their way, once t waits for
\* their answers no longer.
Abandoned(q, t) ==
    [i \in 1..Len(q) |-> IF q[i] = t THEN NoThread ELSE q[i]]
AbandonedLines(q, t) ==
    [i \in 1..Len(q) |-> IF q[i].of = t THEN [q[i] EXCEPT !.of = NoThread] ELSE q[i]]
\* The answers on their way, or on respChan, beyond those that the
\* goroutines at a select wait for.
Late(h) ==
    Len(h.stdin) + Len(h.respChan)
        - Cardinality({t \in Threads :
                        h.pc[t] \in {"Send:select", "initialize:select"}})

\* ManagedServer.Connect: s.mutex.Lock()
ThrConnectLock(t) ==
    /\ thr.pc[t] = "idle"
    /\ TryLock(thr.mutex)
    /\ thr.tconnects < MaxConnects
    /\ thr' = [thr EXCEPT !.mutex = t, !.pc[t] = "Connect"]
    /\ UNCHANGED <<config, pool, scan, wait, registry, mservers, srv, mgr, rc, call>>

\* ManagedServer.Connect from its look at connected to Transport.Connect's
\* return.  A Transport that was not connected starts a subprocess, and
\* with it a new respChan and reader.
ThrConnect(t) ==
    /\ thr.pc[t] = "Connect"
    /\ IF srv[Shared].connected
       THEN /\ thr' = [Unlocked(thr, t) EXCEPT !.returned = TRUE]
            /\ UNCHANGED srv
       ELSE \E spawns \in BOOLEAN, now \in Clock :
            LET c == TransportConnect(srv[Shared], spawns)
                h == [thr EXCEPT !.tconnects = @ + 1]
            IN  IF c.err
                THEN /\ thr' = [Unlocked(h, t) EXCEPT !.returned = TRUE,
                                                      !.healthy = FALSE]
                     /\ UNCHANGED srv
                ELSE /\ srv' = [srv EXCEPT ![Shared] =
                                [c.srv EXCEPT !.connected = TRUE, !.lastUsed = now]]
                     /\ thr' = IF srv[Shared].tconn
                               THEN [h EXCEPT !.pc[t] = "initialize"]
                               ELSE [h EXCEPT !.pc = [Stale(@) EXCEPT ![t] = "initialize"],
                                              !.stdin = <<>>, !.respChan = <<>>,
                                              !.closed = FALSE]
    /\ UNCHANGED <<config, pool, scan, wait, registry, mservers, mgr, rc, call>>

\* ManagedServer.initialize up to the select of Transport.SendRequest: the
\* Transport refuses when it is not connected, and the write fails when the
\* subprocess is gone.
ThrInitialize(t) ==
    /\ thr.pc[t] = "initialize"
    /\ LET h == [thr EXCEPT !.handshakes = @ + 1] IN
       IF ~srv[Shared].tconn \/ ~srv[Shared].alive
       THEN /\ srv' = [srv EXCEPT ![Shared].connected = FALSE]
            /\ thr' = [Unlocked(h, t) EXCEPT !.returned = TRUE]
       ELSE /\ thr' = [h EXCEPT !.pc[t] = "initialize:select",
                                !.stdin = Append(@, t)]
            /\ UNCHANGED srv
    /\ UNCHANGED <<config, pool, scan, wait, registry, mservers, mgr, rc, call>>

\* ManagedServer.initialize from the select on: it takes the next line on
\* respChan, or nothing from a closed respChan, and fails on a JSON-RPC
\* error and on what does not decode.
ThrInitializeSelect(t) ==
    /\ thr.pc[t] = "initialize:select"
    /\ \/ /\ thr.respChan /= <<>>
          /\ LET h == [Unlocked(thr, t) EXCEPT !.returned = TRUE,
                                               !.respChan = Tail(@)]
             IN  /\ thr' = h
                 /\ srv' = IF Head(thr.respChan).err
                           THEN [srv EXCEPT ![Shared].connected = FALSE]
                           ELSE [srv EXCEPT ![Shared].initialized = TRUE]
       \/ /\ thr.respChan = <<>> /\ thr.closed
          /\ thr' = [Unlocked(thr, t) EXCEPT !.returned = TRUE]
          /\ srv' = [srv EXCEPT ![Shared].connected = FALSE]
    /\ UNCHANGED <<config, pool, scan, wait, registry, mservers, mgr, rc, call>>

\* ManagedServer.Disconnect: s.mutex.Lock()
ThrDisconnectLock(t) ==
    /\ thr.pc[t] = "idle"
    /\ TryLock(thr.mutex)
    /\ thr' = [thr EXCEPT !.mutex = t, !.pc[t] = "Disconnect"]
    /\ UNCHANGED <<config, pool, scan, wait, registry, mservers, srv, mgr, rc, call>>

\* ManagedServer.Disconnect after the Lock.  Transport.Disconnect stops the
\* reader, which closes respChan, and kills the subprocess.  The counts
\* begin again when it leaves the Transport disconnected.  A reader that
\* is at its select sees done closed and returns; one that is blocked in
\* its read sees the read fail and goes on to take the Transport's lock.
ThrDisconnect(t) ==
    /\ thr.pc[t] = "Disconnect"
    /\ srv' = [srv EXCEPT ![Shared] = Disconnect(srv[Shared])]
    /\ \E blocked \in BOOLEAN :
       LET h == [Unlocked(thr, t) EXCEPT !.tconnects = 0, !.handshakes = 0,
                                         !.returned = FALSE, !.healthy = TRUE]
       IN  thr' = IF srv[Shared].connected /\ srv[Shared].tconn
                  THEN [h EXCEPT !.stdin = <<>>, !.closed = TRUE,
                                 !.old = @ \/ blocked]
                  ELSE IF srv[Shared].tconn THEN Unlocked(thr, t)
                  ELSE h
    /\ UNCHANGED <<config, pool, scan, wait, registry, mservers, mgr, rc, call>>

\* ManagedServer.SendRequest up to its Unlock: it reads the clock and the
\* two flags, and returns its own error envelope when one is false.
ThrSendBegin(t) ==
    /\ thr.pc[t] = "idle"
    /\ TryLock(thr.mutex)
    /\ \E now \in Clock : srv' = [srv EXCEPT ![Shared].lastUsed = now]
    /\ thr' = IF srv[Shared].connected /\ srv[Shared].initialized
              THEN [thr EXCEPT !.pc[t] = "Send"]
              ELSE thr
    /\ UNCHANGED <<config, pool, scan, wait, registry, mservers, mgr, rc, call>>

\* Transport.SendRequest up to its select, outside every lock: it refuses
\* when the Transport is not connected, and its write fails when the
\* subprocess is gone.
ThrSend(t) ==
    /\ thr.pc[t] = "Send"
    /\ thr' = IF ~srv[Shared].tconn \/ ~srv[Shared].alive
              THEN [thr EXCEPT !.pc[t] = "idle"]
              ELSE [thr EXCEPT !.pc[t] = "Send:select", !.stdin = Append(@, t)]
    /\ UNCHANGED <<config, pool, scan, wait, registry, mservers, srv, mgr, rc, call>>

\* Transport.SendRequest from the select on: the next line on respChan,
\* whatever request it answers, or nothing from a closed respChan.
ThrSendSelect(t) ==
    /\ \/ /\ thr.pc[t] = "Send:select"
          /\ thr.respChan /= <<>>
          /\ thr' = [thr EXCEPT !.pc[t] = "idle", !.respChan = Tail(@)]
       \/ /\ thr.pc[t] = "Send:select"
          /\ thr.respChan = <<>> /\ thr.closed
          /\ thr' = [thr EXCEPT !.pc[t] = "idle"]
       \/ /\ thr.pc[t] = "Send:stale"
          /\ thr' = [thr EXCEPT !.pc[t] = "idle"]
    /\ UNCHANGED <<config, pool, scan, wait, registry, mservers, srv, mgr, rc, call>>

\* Transport.SendRequest at its select when the caller's context ends: it
\* returns ctx.Err() and leaves the request with the subprocess, and the
\* answer, when it comes, on respChan.
ThrSendCancel(t) ==
    /\ thr.pc[t] = "Send:select"
    /\ Late(thr) < MaxLate
    /\ thr' = [thr EXCEPT !.pc[t] = "idle", !.stdin = Abandoned(@, t),
                          !.respChan = AbandonedLines(@, t)]
    /\ UNCHANGED <<config, pool, scan, wait, registry, mservers, srv, mgr, rc, call>>

\* The subprocess answers the oldest request it has read, and the reader
\* puts the line on respChan.
ThrUpstreamAnswers ==
    /\ srv[Shared].alive /\ srv[Shared].tconn
    /\ thr.stdin /= <<>>
    /\ \E err \in BOOLEAN :
        thr' = [thr EXCEPT !.stdin = Tail(@),
                           !.respChan = Append(@, [of |-> Head(thr.stdin),
                                                   err |-> err]),
                           !.healthy = @ /\ ~err]
    /\ UNCHANGED <<config, pool, scan, wait, registry, mservers, srv, mgr, rc, call>>

\* readResponses of a connection that Disconnect has closed: its read has
\* failed, and it marks the Transport disconnected, whatever connection the
\* Transport has by now.
ThrOldReader ==
    /\ thr.old
    /\ srv' = [srv EXCEPT ![Shared] = ReadError(srv[Shared])]
    /\ thr' = [thr EXCEPT !.old = FALSE]
    /\ UNCHANGED <<config, pool, scan, wait, registry, mservers, mgr, rc, call>>

\* The subprocess exits by itself.
ThrUpstreamExit ==
    /\ srv[Shared].alive
    /\ srv' = [srv EXCEPT ![Shared].alive = FALSE]
    /\ thr' = [thr EXCEPT !.stdin = <<>>, !.healthy = FALSE]
    /\ UNCHANGED <<config, pool, scan, wait, registry, mservers, mgr, rc, call>>

\* readResponses: the read from the dead subprocess fails; the reader marks
\* the Transport disconnected, returns, and so closes respChan.
ThrReadResponses ==
    /\ srv[Shared].tconn /\ ~srv[Shared].alive
    /\ srv' = [srv EXCEPT ![Shared] = ReadError(srv[Shared])]
    /\ thr' = [thr EXCEPT !.closed = TRUE]
    /\ UNCHANGED <<config, pool, scan, wait, registry, mservers, mgr, rc, call>>

\* --------------------------------------------------------- specifications
\* The whole gateway, with a few requests.
Next ==
    \/ Return
    \/ SetCapabilities
    \/ UpstreamExit
    \/ ReadResponses
    \/ Start
    \/ StartConnect
    \/ Stop
    \/ ReconnectServer
    \/ ReconnectConnect
    \/ Route(ProbeRequests)

Spec == Init /\ [][Next]_vars

\* The Router over every request, on servers that are started, get their
\* capabilities, and lose their upstreams.
RouterNext ==
    \/ Return
    \/ SetCapabilities
    \/ UpstreamExit
    \/ ReadResponses
    \/ Start
    \/ StartConnect
    \/ Route(Requests)

RouterSpec == Init /\ [][RouterNext]_vars

\* The gateway with callers that never call ReconnectServer.  The gateway's
\* own steps are fair: a call in progress returns, Start's connect loop goes
\* on, and the reader goroutine runs.
LiveNext ==
    \/ Return
    \/ SetCapabilities
    \/ UpstreamExit
    \/ ReadResponses
    \/ Start
    \/ StartConnect
    \/ Stop
    \/ Route(ProbeRequests)

LiveSpec ==
    /\ Init
    /\ [][LiveNext]_vars
    /\ WF_vars(Return)
    /\ WF_vars(StartConnect)
    /\ WF_vars(ReadResponses)

\* Route step by step through Transport.SendRequest, with a caller whose
\* context may be cancelled and an upstream that may read, answer or exit
\* when it likes.  The gateway's own steps are fair; the upstream's and the
\* caller's are not.
DeadlineNext ==
    \/ Return
    \/ UpstreamExit
    \/ ReadResponses
    \/ Start
    \/ StartConnect
    \/ RouteBegin
    \/ WaitWrite
    \/ UpstreamReads
    \/ UpstreamAnswers
    \/ Cancel
    \/ WaitSelect

DeadlineSpec ==
    /\ Init
    /\ [][DeadlineNext]_vars
    /\ WF_vars(Return)
    /\ WF_vars(StartConnect)
    /\ WF_vars(ReadResponses)
    /\ WF_vars(WaitWrite)
    /\ WF_vars(WaitSelect)

\* Servers of the four Transport kinds in the hands of a caller that
\* connects and disconnects them, and their Transports, as it likes.
ServerNext ==
    \/ Return
    \/ NewServer
    \/ UpstreamExit
    \/ ReadResponses
    \/ CallConnect
    \/ CallDisconnect
    \/ CallTransportConnect
    \/ CallTransportDisconnect

ServerSpec == Init /\ [][ServerNext]_vars

\* A pool of up to four entries a type and its borrowers, who return their
\* transports without errors.
PoolNext ==
    \/ Return
    \/ PoolGetTransport(PoolKinds)
    \/ PoolReturnTransport({FALSE})
    \/ PoolClose
    \/ PoolCleanIdleConnections
    \/ PoolTick
    \/ BorrowerConnect
    \/ BorrowerDisconnect

PoolInit == PoolStart({1, 4}, 0..3)

PoolSpec == PoolInit /\ [][PoolNext]_vars

\* A pool of one stdio entry, whose borrowers return it again and again.
HealthNext ==
    \/ Return
    \/ PoolGetTransport({"stdio"})
    \/ PoolReturnTransport(BOOLEAN)
    \/ PoolClose
    \/ PoolCleanIdleConnections
    \/ PoolTick
    \/ BorrowerConnect
    \/ BorrowerDisconnect

HealthInit == PoolStart({1}, {0})

HealthSpec == HealthInit /\ [][HealthNext]_vars

\* A pool of one stdio entry, new or after a long run of errors.
DecayInit ==
    /\ config = <<>>
    /\ registry = EmptyMap
    /\ mservers = EmptyMap
    /\ srv = [o \in ObjIds |-> FreeServer]
    /\ mgr = Idle
    /\ rc = NoReconnect
    /\ scan = NoScan
    /\ wait = NoWait
    /\ pool \in {NewConnectionPool(1, 0), DecayedPool}
    /\ thr = NoThreads
    /\ call = NoCall

DecaySpec == DecayInit /\ [][HealthNext]_vars

\* One server and the goroutines that connect it, disconnect it and
\* send requests through it, with contexts that do not end.
ThreadNext ==
    \/ \E t \in Threads : ThrConnectLock(t)
    \/ \E t \in Threads : ThrConnect(t)
    \/ \E t \in Threads : ThrInitialize(t)
    \/ \E t \in Threads : ThrInitializeSelect(t)
    \/ \E t \in Threads : ThrDisconnectLock(t)
    \/ \E t \in Threads : ThrDisconnect(t)
    \/ \E t \in Threads : ThrSendBegin(t)
    \/ \E t \in Threads : ThrSend(t)
    \/ \E t \in Threads : ThrSendSelect(t)
    \/ ThrUpstreamAnswers
    \/ ThrUpstreamExit
    \/ ThrReadResponses
    \/ ThrOldReader

ThreadSpec == ThreadInit /\ [][ThreadNext]_vars

\* One server in the hands of one caller at a time, whose SendRequest
\* contexts may end before the answer comes.
Caller == Min(Threads)
SerialNext ==
    \/ ThrConnectLock(Caller)
    \/ ThrConnect(Caller)
    \/ ThrInitialize(Caller)
    \/ ThrInitializeSelect(Caller)
    \/ ThrDisconnectLock(Caller)
    \/ ThrDisconnect(Caller)
    \/ ThrSendBegin(Caller)
    \/ ThrSend(Caller)
    \/ ThrSendSelect(Caller)
    \/ ThrSendCancel(Caller)
    \/ ThrUpstreamAnswers
    \/ ThrUpstreamExit
    \/ ThrReadResponses
    \/ ThrOldReader

SerialSpec == ThreadInit /\ [][SerialNext]_vars

\* The Registry alone, holding servers that are not connected.
RegistryNext ==
    \/ Return
    \/ SetCapabilities
    \/ NewServer
    \/ RegistryRegister
    \/ RegistryUnregister
    \/ ReadListServers
    \/ ReadGetServer
    \/ ScanBegin
    \/ ScanStep

RegistrySpec == Init /\ [][RegistryNext]_vars

\* ---------------------------------------------------------------- claims
\* What the claims call things, written without the Router's own operators.
Routed == call.op = "Route"
Forwarded ==
    Routed /\ call.req.jsonrpc = "2.0" /\ call.req.method \notin GatewayMethods
Sent == Routed /\ call.sends = 1
Ready(o) == srv[o].connected /\ srv[o].initialized

\* C1: on every path of Route the Response carries the id of the request.
C1_ResponseCarriesRequestId == Routed => call.resp.id = call.req.id

\* C2 as claimed: ManagedServer.SendRequest never returns an error and what
\* it returns is always a well-formed response envelope.
C2_AlwaysWellFormed == Sent => ~call.sr.err /\ call.sr.data.decodes

\* C2: ManagedServer.SendRequest never returns an error and always records
\* the time of the call in lastUsed; on a server that is not both connected
\* and initialized it returns the internal-error envelope without calling
\* the Transport; when the Transport call fails it returns the
\* internal-error envelope; when the Transport call succeeds it returns the
\* Transport's bytes as they are.
C2_SendRequestEnvelope ==
    Sent =>
        /\ ~call.sr.err
        /\ srv[call.target].lastUsed = call.sr.t
        /\ ~Ready(call.target) =>
              /\ call.sr.tcalls = 0
              /\ call.sr.data.decodes /\ call.sr.data.error = InternalError
        /\ Ready(call.target) => call.sr.tcalls = 1
        /\ call.sr.terr =>
              call.sr.data.decodes /\ call.sr.data.error = InternalError
        /\ call.sr.tcalls = 1 /\ ~call.sr.terr => call.sr.data = call.sr.tdata

\* C2's case: a request sent to a connected and initialized server whose
\* Transport call failed.
C2_Witness == Sent /\ Ready(call.target) /\ call.sr.terr

\* C3: once the reader has marked a connected server's Transport
\* disconnected and an operation on that server has failed, an observation
\* of the server reports connected = false.
C3_FlagCorrectedAfterFailure ==
    \A o \in ObjIds :
        Sent /\ call.target = o /\ call.sr.terr /\ ~srv[o].tconn =>
            /\ ~IsConnected(srv[o])
            /\ ~ServerStatus(o).connected
            /\ ~ServerSummary(o).connected

\* C4: a registered server whose upstream has gone away while the server
\* is marked connected is, without any call of ReconnectServer, eventually
\* connected to a live upstream again (or stopped by its owner).
C4_ReconnectsByItself ==
    \A o \in ObjIds :
        (o \in Range(registry) /\ srv[o].connected /\ ~srv[o].alive)
            ~> \/ o \notin Range(registry)
               \/ srv[o].connected /\ srv[o].tconn /\ srv[o].alive

\* The servers registered under the name the request's "_server" gives.
HintTargets ==
    {registry[n] : n \in {m \in ServerNames :
                             /\ call.req.params.kind = "object"
                             /\ <<"_server", m>> \in call.req.params.obj}}
        \ {NoObj}
\* The capability tag the request's method prefix stands for.
InferredTag ==
    CASE HasPrefix(call.req.method, StrToolsSlash) -> "tools"
      [] HasPrefix(call.req.method, StrResourcesSlash) -> "resources"
      [] HasPrefix(call.req.method, StrPromptsSlash) -> "prompts"
      [] OTHER -> ""
\* The registered servers whose capability list has the tag.
Advertisers(tag) ==
    {o \in Range(registry) : \E i \in DOMAIN srv[o].caps : srv[o].caps[i] = tag}
\* Where a request without a hint goes.
UnhintedRouting ==
    IF InferredTag /= "" /\ Advertisers(InferredTag) /= {}
    THEN call.sends = 1 /\ call.target \in Advertisers(InferredTag)
    ELSE IF Range(registry) /= {}
    THEN call.sends = 1 /\ call.target \in Range(registry)
    ELSE call.sends = 0 /\ call.resp.error = ServerError

\* C5: a forwarded request whose "_server" names a registered server is
\* sent to exactly that server, whatever the capabilities; one whose
\* "_server" names no registered server is routed as if it had no hint.
C5_HintWins ==
    Forwarded =>
        IF HintTargets /= {}
        THEN call.sends = 1 /\ call.target \in HintTargets
        ELSE UnhintedRouting

\* C5's case: the hinted server got the request although it does not
\* advertise the tag of the method and another server does.
C5_Witness ==
    /\ Forwarded /\ HintTargets /= {}
    /\ Advertisers(InferredTag) /= {}
    /\ call.target \notin Advertisers(InferredTag)

\* C6: without a resolvable hint, a method that starts with tools/,
\* resources/ or prompts/ goes to a server that advertises exactly that tag
\* when there is one; no other method infers a capability.
C6_CapabilityRouting ==
    /\ Forwarded /\ HintTargets = {} /\ InferredTag /= ""
           /\ Advertisers(InferredTag) /= {}
         => call.sends = 1 /\ call.target \in Advertisers(InferredTag)
    /\ \A m \in Methods :
         ExtractCapability(m) /= "" =>
             \/ HasPrefix(m, StrToolsSlash) /\ ExtractCapability(m) = "tools"
             \/ HasPrefix(m, StrResourcesSlash) /\ ExtractCapability(m) = "resources"
             \/ HasPrefix(m, StrPromptsSlash) /\ ExtractCapability(m) = "prompts"

\* C6's case: two servers are registered, only one advertises the tag, and
\* it got the unhinted request.
C6_Witness ==
    /\ Forwarded /\ HintTargets = {} /\ call.sends = 1
    /\ call.target \in Advertisers(InferredTag)
    /\ Range(registry) \ Advertisers(InferredTag) /= {}

\* C7: with neither a resolvable hint nor a server for the inferred
\* capability, the request goes to some registered server; with no server
\* registered the Response has code -32000 and nothing is sent.
C7_Fallback ==
    Forwarded /\ HintTargets = {}
        /\ (InferredTag = "" \/ Advertisers(InferredTag) = {})
      => IF Range(registry) /= {}
         THEN call.sends = 1 /\ call.target \in Range(registry)
         ELSE call.sends = 0 /\ call.resp.error = ServerError

\* C7's case: a method with a tag no registered server advertises was sent
\* to a registered server.
C7_Witness ==
    /\ Forwarded /\ HintTargets = {} /\ InferredTag /= ""
    /\ Advertisers(InferredTag) = {} /\ call.sends = 1

\* C8: the request handed to the server has no "_server" member; its
\* method, its id and its other params are those of the client's request.
C8_HintStripped ==
    Sent =>
        /\ call.fwd.method = call.req.method
        /\ call.fwd.id = call.req.id
        /\ ~HasKey(call.fwd.params.obj, "_server")
        /\ call.req.params.kind = "object" =>
              call.fwd.params.obj =
                  {m \in call.req.params.obj : m[1] /= "_server"}

\* C9: a request whose jsonrpc is not "2.0" gets error code -32600 and
\* nothing is sent to any server, whatever its method, params and id.
C9_VersionRejected ==
    Routed /\ call.req.jsonrpc /= "2.0" =>
        /\ call.resp.error = InvalidRequest
        /\ call.sends = 0 /\ call.target = NoObj

\* C9's case: a "1.0" request for a method that would be forwarded, with a
\* hint, while the hinted server is registered.
C9_Witness ==
    /\ Routed /\ call.req.jsonrpc = "1.0"
    /\ call.req.method \notin GatewayMethods
    /\ HintTargets /= {}

\* C10: a step that answers one of the four gateway/ methods sends
\* nothing to any server and leaves every server's connected, initialized,
\* lastUsed and capabilities, and the registry, as they were.
C10_GatewayMethodsAreLocal ==
    [][(call'.op = "Route" /\ call'.req.jsonrpc = "2.0"
            /\ call'.req.method \in GatewayMethods)
         => /\ call'.sends = 0 /\ call'.target = NoObj
            /\ srv' = srv /\ registry' = registry /\ mservers' = mservers]_vars

\* C10's case: gateway/server_status answered for a registered server
\* that is connected.
C10_Witness ==
    /\ Routed /\ call.req.method = StrServerStatus
    /\ call.resp.error = NoError
    /\ \E o \in Range(registry) : srv[o].connected

\* C11: a "2.0" request for one of the gateway's own methods gets a
\* Response with jsonrpc "2.0" and the request's id, whether the id is
\* nil, an integer, a float or a string, and whether the method succeeds,
\* rejects its params or does not find the server.
C11_GatewayIdRoundTrip ==
    Routed /\ call.req.jsonrpc = "2.0" /\ call.req.method \in GatewayMethods
        => /\ call.resp.id = call.req.id
           /\ call.resp.jsonrpc = "2.0"
           /\ call.resp.error \in {NoError, InvalidParams, ServerError}

\* C11's case: invalid params answered to a request whose id is a float.
C11_Witness ==
    /\ Routed /\ call.req.jsonrpc = "2.0" /\ call.req.method = StrGetServer
    /\ call.req.id = "f:1.5" /\ call.resp.error = InvalidParams

\* A ManagedServer.Connect call on a server that was not connected has
\* just returned, its Transport.Connect having succeeded.
Connected == call.conn.obj /= NoObj /\ ~call.conn.connected /\ call.conn.sent

\* C12: when Connect has opened the Transport and the handshake response
\* carries an error object, Connect returns an error and leaves the server
\* connected and not initialized; when the response carries no error,
\* Connect succeeds and the server is initialized.
C12_HandshakeError ==
    Connected /\ ~call.conn.resp.err /\ call.conn.resp.data.decodes =>
        IF call.conn.resp.data.error /= NoError
        THEN /\ call.conn.err
             /\ call.conn.after.connected
             /\ ~call.conn.after.initialized
        ELSE /\ ~call.conn.err
             /\ call.conn.after.connected
             /\ call.conn.after.initialized

\* The names ListServers() gives, and those of the configuration.
ListedNames == {srv[o].name : o \in ListServers}
EnabledNames == {config[i].name : i \in {j \in 1..Len(config) : config[j].enabled}}
BuildableNames ==
    {config[i].name : i \in {j \in 1..Len(config) :
        /\ config[j].enabled
        /\ config[j].transport \in {"stdio", "http", "websocket", "unix"}}}
Started == call.op = "Start"

\* C13 as claimed: when Start has returned, ListServers() holds a server for
\* the name of every enabled definition and for no other name.
C13_ExactlyEnabled == Started => ListedNames = EnabledNames

\* C13: when Start has returned, ListServers() holds one server for each
\* name of an enabled definition whose transport type the factory knows,
\* and no server for any other name.
C13_ExactlyBuildable ==
    Started =>
        /\ ListedNames = BuildableNames
        /\ Cardinality(ListServers) = Cardinality(BuildableNames)
        /\ \A n \in ServerNames :
             n \in BuildableNames <=> registry[n] /= NoObj /\ srv[registry[n]].name = n

\* C13's case: Start has returned on a configuration with a disabled
\* definition and an enabled one, and the enabled one is listed.
C13_Witness ==
    /\ Started /\ ListedNames /= {}
    /\ \E i \in 1..Len(config) : ~config[i].enabled

\* C14: Start returns success whatever the configuration and the
\* upstreams do; every enabled definition the factory can build has a
\* registered server on which Connect was attempted, a definition it cannot
\* build has none; a server whose every attempt failed is registered and
\* not connected.
C14_StartNeverFails ==
    Started =>
        /\ ~call.err
        /\ ListedNames = BuildableNames
        /\ \A o \in ListServers : call.tried[o] /= "no"
        /\ \A o \in ObjIds :
             call.tried[o] = "failed" => o \in ListServers /\ ~srv[o].connected

\* C15: every Stop, whenever it is called, returns without error and
\* leaves ListServers() and the Manager's map empty; a Stop that finds
\* both empty changes nothing.
C15_StopIdempotent ==
    [][call'.op = "Stop" =>
          /\ ~call'.err
          /\ Range(registry') = {} /\ Range(mservers') = {}
          /\ Range(registry) = {} /\ Range(mservers) = {} =>
                registry' = registry /\ mservers' = mservers /\ srv' = srv]_vars

\* C15's case: a Stop that found servers in the Manager's map has returned.
C15_Witness ==
    call.op = "Stop" /\ call.count > 0 /\ ListServers = {}

\* C16: ReconnectServer of a name that is not in the Manager's map
\* returns the not-found error and changes no server, and only such a name
\* gets it; for a managed name it disconnects the server first, then makes
\* up to three Connect attempts and returns the last one's result, success
\* only with the server connected and initialized.
C16_ReconnectServer ==
    /\ [][/\ call'.op = "ReconnectServer" /\ call'.conn.obj = NoObj =>
              /\ call'.err /\ mservers[call'.name] = NoObj
              /\ srv' = srv /\ registry' = registry /\ mservers' = mservers
          /\ rc.obj = NoObj /\ rc'.obj /= NoObj =>
              /\ rc'.obj \in Range(mservers)
              /\ ~srv'[rc'.obj].connected
              /\ call' = NoCall]_vars
    /\ [](call.op = "ReconnectServer" /\ call.conn.obj /= NoObj =>
               (/\ call.err = call.conn.err
                /\ call.conn.attempt \in 1..3
                /\ (call.conn.attempt = 1 => ~call.conn.connected)
                /\ (~call.err => call.conn.after.connected
                                    /\ call.conn.after.initialized)))

\* C16's case: a ReconnectServer whose first Connect attempt failed and
\* whose second succeeded has returned.
C16_Witness ==
    /\ call.op = "ReconnectServer" /\ ~call.err
    /\ call.conn.attempt = 2 /\ call.conn.sent

\* C17: Register of a name that is present fails and leaves the registry
\* as it was, the name still mapping to the server registered first;
\* Unregister of an absent name fails and leaves the registry as it was;
\* so each registered server is found under its own name only.
C17_NamesUnique ==
    /\ [][/\ call'.op = "Register" =>
              IF registry[call'.name] /= NoObj
              THEN call'.err /\ registry' = registry
              ELSE ~call'.err
                   /\ registry' = [registry EXCEPT ![call'.name] = call'.target]
          /\ call'.op = "Unregister" =>
              IF registry[call'.name] = NoObj
              THEN call'.err /\ registry' = registry
              ELSE ~call'.err
                   /\ registry' = [registry EXCEPT ![call'.name] = NoObj]]_vars
    /\ [](\A n \in ServerNames :
            registry[n] /= NoObj => srv[registry[n]].name = n)

\* C17's case: Register of a second server with a registered name has
\* failed and the first is still the one registered.
C17_Witness ==
    /\ call.op = "Register" /\ call.err
    /\ registry[call.name] /= NoObj /\ registry[call.name] /= call.target

\* C18: what ListServers, GetServer and ListServersByCapability return is
\* what the same read would have given at one instant while it ran.
C18_ReadsAreSnapshots ==
    call.op \in {"ListServers", "GetServer", "ListServersByCapability"}
        => call.result \in call.snaps

\* A Route inside Transport.SendRequest whose context is done returns.
C19_Returns == (wait.stage /= "none" /\ wait.cancelled) ~> (wait.stage = "none")
\* A Route that got no answer from its upstream returns an internal error.
C19_InternalError ==
    (call.op = "Route" /\ call.waited /\ call.line = "")
        => call.resp.error = InternalError
\* C19: every Route whose context is eventually cancelled or expires
\* eventually returns a Response, and when the upstream never answered that
\* Response is an internal-error (-32603) envelope.
C19_DeadlineUnblocksCaller == C19_Returns /\ []C19_InternalError

\* Calling twice is calling once: a second Disconnect, and a Connect after
\* one that succeeded, leave the server and its Transport as the first did.
C20_Twice ==
    \A o \in ObjIds \ FreeSlots(srv) :
        /\ Disconnect(Disconnect(srv[o])) = Disconnect(srv[o])
        /\ TransportDisconnect(TransportDisconnect(srv[o]))
              = TransportDisconnect(srv[o])
        /\ \A t \in Clock, out \in ConnectOutcomes :
              LET c == Connect(srv[o], t, out) IN
              ~c.err => \A t2 \in Clock, out2 \in ConnectOutcomes :
                          LET d == Connect(c.srv, t2, out2) IN
                          ~d.err /\ d.srv = c.srv /\ d.tcalls = 0 /\ ~d.sent
        /\ \A spawns \in BOOLEAN :
              LET c == TransportConnect(srv[o], spawns) IN
              ~c.err => \A again \in BOOLEAN :
                          LET d == TransportConnect(c.srv, again) IN
                          ~d.err /\ d.srv = c.srv
\* C20: for a ManagedServer and for a Transport of every kind, Connect on a
\* connected one returns success, opens nothing and sends no handshake,
\* Disconnect on one that is not connected returns success and changes
\* nothing, and calling either twice ends where calling it once ends.
C20_Idempotent ==
    /\ [][/\ (call'.op = "ManagedServer.Connect" /\ srv[call'.target].connected)
              => (~call'.err /\ srv' = srv
                    /\ call'.conn.tcalls = 0 /\ ~call'.conn.sent)
          /\ (call'.op = "ManagedServer.Disconnect"
                    /\ ~srv[call'.target].connected)
              => (~call'.err /\ srv' = srv)
          /\ (call'.op = "Transport.Connect" /\ srv[call'.target].tconn)
              => (~call'.err /\ srv' = srv)
          /\ (call'.op = "Transport.Disconnect" /\ ~srv[call'.target].tconn)
              => (~call'.err /\ srv' = srv)]_vars
    /\ []C20_Twice
\* A Connect has returned from an HTTP server that was connected already,
\* and a Disconnect from a server that was not connected.
C20_Witness ==
    /\ call.op = "ManagedServer.Connect" /\ call.conn.connected
    /\ srv[call.target].transport = "http"
    /\ \E o \in ObjIds : srv[o].transport = "websocket" /\ srv[o].tconn

\* The entries of a type in the pool that GetTransport was called on.
EntriesBefore == call.before.transports[call.kind]
NoneEligibleBefore ==
    \A i \in 1..Len(EntriesBefore) : ~Eligible(call.before.obj[EntriesBefore[i]])

\* C21: no type ever holds more entries than maxPerType, and GetTransport
\* on a type that holds maxPerType entries, none of them eligible, fails
\* with the pool-exhausted error.
C21_Bounded ==
    /\ \A k \in PoolKinds : Len(pool.transports[k]) <= pool.maxPerType
    /\ (/\ call.op = "GetTransport"
        /\ Len(EntriesBefore) = call.before.maxPerType
        /\ NoneEligibleBefore)
            => (call.why = "exhausted" /\ call.t = NoPooled)
\* GetTransport has failed on a type that held four entries, one of them
\* connected.
C21_Witness ==
    /\ call.op = "GetTransport" /\ call.why = "exhausted"
    /\ Len(EntriesBefore) = 4
    /\ \E i \in 1..4 : call.before.obj[EntriesBefore[i]].connected

\* The score of an entry that started at 1.0 and was returned three times
\* in a row with an error; no other history gives this score.
ThreeErrors == OnError(OnError(OnError(ScoreOne)))

\* C22: three ReturnTransport calls with an error on a new entry leave its
\* score below one half, and GetTransport does not hand the entry out again.
C22_ThreeErrorsWearOut ==
    /\ \A t \in Pooled(pool) :
          pool.obj[t].healthScore = ThreeErrors
              => Less(pool.obj[t].healthScore, ScoreHalf)
    /\ (call.op = "GetTransport" /\ call.t \in Pooled(call.before))
          => call.before.obj[call.t].healthScore /= ThreeErrors

\* The connectWithRetry attempt that has just returned, in Start or in
\* ReconnectServer.
InRetry == call.op \in {"Start", "Connect", "ReconnectServer"} /\ call.conn.obj /= NoObj

\* C23: a run of connectWithRetry makes between one and three attempts and
\* none after a success; after failed attempt k (k = 1, 2) it waits k time
\* units and after the last attempt it does not wait; when the context
\* ends a wait it returns the error with no further attempt.
C23_RetrySchedule ==
    InRetry =>
        LET log == call.conn.log
            n == Len(log)
        IN  /\ n \in 1..3
            /\ \A k \in 1..(n - 1) :
                  log[k].err /\ log[k].backoff = k /\ ~log[k].cancelled
            /\ log[n].backoff = (IF log[n].err /\ n < 3 THEN n ELSE 0)
            /\ call.conn.done <=> (~log[n].err \/ n = 3 \/ log[n].cancelled)
            /\ (call.conn.done /\ call.op = "ReconnectServer")
                  => (call.err <=> log[n].err)
            /\ log[n].cancelled => (log[n].err /\ call.conn.done)
\* A run has ended with its third attempt, after waits of one and of two
\* time units.
C23_Witness ==
    /\ InRetry /\ call.conn.done
    /\ Len(call.conn.log) = 3
    /\ call.conn.log[1].backoff = 1 /\ call.conn.log[2].backoff = 2

\* C24: while no Start or Stop is in progress, Manager.servers and the
\* Registry hold the same names, each with the same ManagedServer.
C24_MapsAgree == mgr.lock = "free" => mservers = registry

\* C25: a Connect on a server that is not connected leaves it initialized
\* only when the handshake of that very call succeeded; after a failed
\* one IsInitialized() is false.
C25_InitializedIsFresh ==
    (call.conn.obj /= NoObj /\ ~call.conn.connected)
        => (call.conn.after.initialized <=> ~call.conn.err)

\* C26: Connect and Disconnect of one ManagedServer never overlap, the
\* mutex being held from the Lock to the return, through Transport.Connect
\* and the handshake; and the Connects that goroutines make at the same
\* time on a disconnected server whose upstream is healthy make one
\* Transport.Connect call and one handshake between them.
Critical == {"Connect", "initialize", "initialize:select", "Disconnect"}
InCritical == {t \in Threads : thr.pc[t] \in Critical}
Exclusive ==
    /\ Cardinality(InCritical) <= 1
    /\ \A t \in InCritical : thr.mutex = t
C26_ConnectSerialized ==
    /\ Exclusive
    /\ thr.healthy => thr.tconnects <= 1 /\ thr.handshakes <= 1
    /\ thr.healthy /\ thr.returned => thr.tconnects = 1 /\ thr.handshakes = 1

\* A second goroutine is inside Connect, at its look at connected, after a
\* first one's Connect has connected the server and shaken hands.
C26_Witness ==
    /\ thr.healthy /\ thr.returned
    /\ srv[Shared].connected /\ srv[Shared].initialized
    /\ \E t \in Threads : thr.pc[t] = "Connect"

\* C27: a Transport has at most one request outstanding: no two goroutines
\* are between the write and the read of Transport.SendRequest on the same
\* Transport.
InFlight == {t \in Threads : thr.pc[t] \in {"Send:select", "initialize:select"}}
C27_OneOutstanding == Cardinality(InFlight) <= 1

\* C28: once the reader of a Transport has met a read error and returned,
\* the Transport is disconnected: IsConnected() is false and SendRequest
\* refuses, writing nothing, until a Connect has connected the Transport
\* again.
C28_ReaderErrorDisconnects ==
    /\ [](thr.closed => ~srv[Shared].tconn)
    /\ [][\A t \in Threads :
            thr.pc[t] = "Send" /\ ~srv[Shared].tconn /\ thr'.pc[t] /= "Send"
                => thr'.pc[t] = "idle" /\ thr'.stdin = thr.stdin]_vars
    /\ [][~srv[Shared].tconn /\ srv'[Shared].tconn
            => \E t \in Threads :
                thr.pc[t] = "Connect" /\ thr'.pc[t] = "initialize"]_vars

\* The reader has met its error on a connected server, and a goroutine is
\* about to call Transport.SendRequest.
C28_Witness ==
    /\ srv[Shared].connected /\ srv[Shared].initialized
    /\ thr.closed /\ ~srv[Shared].tconn
    /\ \E t \in Threads : thr.pc[t] = "Send"

\* The entries that were in the pool before the last call and still are,
\* and the one the call made.
Kept == {i \in Pooled(pool) \cap Pooled(call.before) :
            ~(call.op = "GetTransport" /\ call.t = i /\ pool.obj[i].requestCount = 0)}
Made == {i \in Pooled(pool) :
            call.op = "GetTransport" /\ call.t = i /\ pool.obj[i].requestCount = 0}
ScoreBefore(i) == call.before.obj[i].healthScore
ScoreAfter(i) == pool.obj[i].healthScore
InRange(score) == score[1] > 0 /\ ~Less(ScoreOne, score)
PoolOps == {"GetTransport", "ReturnTransport", "Close", "CleanIdleConnections"}
ScoresOtherwiseKept ==
    /\ \A i \in Pooled(pool) : InRange(ScoreAfter(i))
    /\ \A i \in Made : ScoreAfter(i) = ScoreOne
    /\ call.op \in PoolOps =>
        \A i \in Kept :
            \/ call.op = "ReturnTransport" /\ call.t = i
            \/ ScoreAfter(i) = ScoreBefore(i)
    /\ call.op = "ReturnTransport" /\ call.t \in Kept /\ call.why /= "error" =>
        ~Less(ScoreAfter(call.t), ScoreBefore(call.t))

ScoreFloor == <<5, Subnormal>>
FirstEligible(obj, A) ==
    LET E == {i \in 1..Len(A) : Eligible(obj[A[i]])} IN
    IF E = {} THEN NoPooled ELSE A[Min(E)]
C30_FirstEligible ==
    call.op = "GetTransport" =>
        LET A == EntriesBefore IN
        /\ call.t \in SeqRange(A) /\ call.t \notin Made =>
            /\ Eligible(call.before.obj[call.t])
            /\ call.t = FirstEligible(call.before.obj, A)
        /\ \A i \in 1..Len(A) :
            LET e == call.before.obj[A[i]] IN
            e.connected /\ ~Less(ScoreHalf, e.healthScore) =>
                /\ call.t = A[i] => call.t \in Made
                /\ A[i] \in SeqRange(pool.transports[call.kind])

\* C31: a GetTransport that finds no eligible entry leaves in the pool no
\* entry of the requested type that was disconnected when it was called.
C31_DisconnectedEvicted ==
    call.op = "GetTransport" /\ NoneEligibleBefore =>
        \A i \in 1..Len(EntriesBefore) :
            ~call.before.obj[EntriesBefore[i]].connected =>
                \/ EntriesBefore[i] \notin SeqRange(pool.transports[call.kind])
                \/ EntriesBefore[i] \in Made

\* C39: GetTransport fails with the pool-exhausted error only when, after
\* the entries it has removed, the pool still holds maxPerType entries of
\* the requested type.
C39_ExhaustedOnlyWhenFull ==
    call.op = "GetTransport" /\ call.why = "exhausted" =>
        Len(pool.transports[call.kind]) = pool.maxPerType

\* C40: no pooled transport is in two slots of the pool: the length of each
\* type's slice, which is what Stats counts, is the number of distinct
\* transports in it.
C40_NoTransportTwice ==
    \A k \in PoolKinds :
        Len(pool.transports[k]) = Cardinality(SeqRange(pool.transports[k]))

\* C32: while no connect loop of the Manager is running, a ManagedServer
\* whose connected flag is false has no live subprocess or open socket
\* behind its Transport.
C32_NoOpenConnection ==
    mgr = Idle /\ rc = NoReconnect =>
        \A o \in ObjIds \ FreeSlots(srv) : ~srv[o].connected => ~srv[o].alive

\* C33: the reader of a connection that Disconnect has closed never marks
\* a later connection disconnected: a server that has been connected and
\* not disconnected since, with its upstream alive, has a connected
\* Transport.
C33_OldReaderHarmless ==
    srv[Shared].connected /\ srv[Shared].alive => srv[Shared].tconn

\* C34: once Stop has returned, no server that it found in Manager.servers
\* is connected or becomes connected: while Manager.servers is empty, as
\* Stop leaves it, no server is connected and no ReconnectServer returns
\* having connected one.
C34_StoppedStaysStopped ==
    mservers = EmptyMap /\ mgr = Idle =>
        /\ \A o \in ObjIds \ FreeSlots(srv) : ~srv[o].connected
        /\ call.op = "ReconnectServer" /\ ~call.err =>
               ~call.conn.after.connected

\* C35: on a streaming Transport that one caller uses at a time, a
\* SendRequest that returns a response returns the response to its own
\* request, also after an earlier SendRequest has ended by its deadline.
C35_OwnResponse ==
    [][\A t \in Threads :
        /\ thr.pc[t] \in {"Send:select", "initialize:select"}
        /\ thr.respChan /= <<>>
        /\ thr'.pc[t] = "idle" /\ thr'.respChan = Tail(thr.respChan)
        => Head(thr.respChan).of = t]_vars

\* C36: Transport.SendRequest returns without an error only with a line
\* that the reader has read from the upstream: when the connection has
\* dropped while the request waited, it returns an error and not an empty
\* response.
C36_NoEmptySuccess ==
    call.op = "Route" /\ call.waited /\ ~call.sr.terr => call.line /= ""

\* A Connect is inside its handshake.
Unfinished == \E t \in Threads : thr.pc[t] \in {"initialize", "initialize:select"}

\* ManagedServer.SendRequest lets a caller through only outside every
\* Connect, on a server whose last Connect has made a handshake and
\* returned.
ObservedAfterHandshake ==
    [][\A t \in Threads :
        thr.pc[t] = "idle" /\ thr'.pc[t] = "Send"
            => /\ thr.mutex = NoThread /\ ~Unfinished
               /\ thr.handshakes >= 1 /\ thr.returned
               /\ srv[Shared].connected /\ srv[Shared].initialized]_vars

\* C37: a server forwards requests only when the handshake of its most
\* recent connect cycle has succeeded: whatever Connect and Disconnect
\* calls are made, a caller that SendRequest has let through does not
\* write its request to a Transport whose server is inside a handshake, or
\* has failed its last one.
C37_ForwardsAfterHandshake ==
    \A t \in Threads :
        thr.pc[t] = "Send" /\ srv[Shared].tconn /\ srv[Shared].alive
            => srv[Shared].connected /\ ~Unfinished

\* C38: when a connected and initialized server advertises the capability
\* inferred from the method, an unhinted request is handed to the Transport
\* of a connected and initialized server, and not answered with the local
\* error of another advertiser that is not connected.
C38_RoutesToReady ==
    /\ Forwarded /\ HintTargets = {} /\ InferredTag /= ""
    /\ \E o \in Advertisers(InferredTag) : Ready(o)
    => /\ call.sends = 1 /\ Ready(call.target)
       /\ call.sr.tcalls = 1

====
